---- MODULE Spec2Model ----
(***************************************************************************)
(* Model of the support-template extension's core:                         *)
(*   - the placeholder engine of src/src/utils/storage.ts, lines 164-254   *)
(*     (extractVariables, validateTemplate, processTemplate), and          *)
(*   - the StorageService of src/src/utils/storage.ts, lines 11-162, over  *)
(*     a key-value store whose calls may fail,                             *)
(*   - createTemplate, createVariable and generateId, lines 220-254, and   *)
(*   - the components that call them: TemplateManager (part_007),          *)
(*     TemplateEditor and ImportExportDialog (TemplateEditor.tsx) and      *)
(*     Settings (Settings.tsx).                                            *)
(* Strings are sequences of one-character strings.                         *)
(***************************************************************************)
EXTENDS Integers, Sequences, FiniteSets, TLC

VARIABLES
    template,    \* engine: the Template handed to the engine functions
    variables,   \* engine: the Variable[] handed to the engine functions
    engineOut,   \* engine: the last engine call and what it returned
    store,       \* chrome.storage.local: the two collection keys
    op,          \* the StorageService call in progress (or idle)
    result,      \* outcome of the last finished StorageService call
    manager,     \* TemplateManager: its useState cells
    editor,      \* TemplateEditor: its useState cells and its last save
    clock,       \* what Date.now() returns
    made,        \* the last createTemplate / createVariable call
    seen,        \* the values the store has held since an export began
    clip,        \* the system clipboard, the page, the last copyToClipboard
    call,        \* the last call of a TemplateManager or Settings handler
    inflight     \* the handler calls of TemplateManager that overlap

vars == <<template, variables, engineOut, store, op, result,
          manager, editor, clock, made, seen, clip, call, inflight>>
engineVars == <<template, variables, engineOut>>
storeVars == <<store, op, result>>
appVars == <<manager, editor, clock, made, seen, clip, call, inflight>>

(***************************************************************************)
(* Bounds                                                                  *)
(***************************************************************************)
\* content is a concatenation of at most MaxPieces pieces
MaxPieces == 3
\* a stored or imported collection holds at most MaxRecs records
MaxRecs == 2
\* exportData reads the clock at an instant of 0..MaxInstant
MaxInstant == 1

(***************************************************************************)
(* Strings                                                                 *)
(***************************************************************************)
OB == "{"
CB == "}"
SP == " "

\* the characters String.prototype.trim strips (of the model's alphabet)
IsWhitespace(c) == c = SP

RECURSIVE trimStart(_)
trimStart(s) ==
    IF s # <<>> /\ IsWhitespace(Head(s)) THEN trimStart(Tail(s)) ELSE s

RECURSIVE trimEnd(_)
trimEnd(s) ==
    IF s # <<>> /\ IsWhitespace(s[Len(s)])
    THEN trimEnd(SubSeq(s, 1, Len(s) - 1))
    ELSE s

\* String.prototype.trim
trim(s) == trimEnd(trimStart(s))

\* Array.prototype.includes on an array of strings
includes(arr, x) == \E i \in 1..Len(arr) : arr[i] = x

(***************************************************************************)
(* The regular expression /\{\{([^}]+)\}\}/g                               *)
(***************************************************************************)
\* [^}]+ is greedy: from position j it runs up to the next "}" (or the end)
RECURSIVE classRunEnd(_, _)
classRunEnd(s, j) ==
    IF j <= Len(s) /\ s[j] # CB THEN classRunEnd(s, j + 1) ELSE j

NoMatch == [found |-> FALSE, index |-> 0, last |-> 0, group |-> <<>>, text |-> <<>>]

\* a plausible slip: the pattern with a balanced-name class [^{}]+
RECURSIVE noBraceRunEnd(_, _)
noBraceRunEnd(s, j) ==
    IF j <= Len(s) /\ s[j] # CB /\ s[j] # OB THEN noBraceRunEnd(s, j + 1) ELSE j

matchAtNoInnerBrace(s, i) ==
    IF i + 1 <= Len(s) /\ s[i] = OB /\ s[i + 1] = OB
    THEN LET e == noBraceRunEnd(s, i + 2)
         IN  IF e > i + 2 /\ e + 1 <= Len(s) /\ s[e] = CB /\ s[e + 1] = CB
             THEN [found |-> TRUE, index |-> i, last |-> e + 1,
                   group |-> SubSeq(s, i + 2, e - 1),
                   text |-> SubSeq(s, i, e + 1)]
             ELSE NoMatch
    ELSE NoMatch

\* an attempt to match the pattern with its first character at position i
\* (1-based); a shorter run than the greedy one is followed by a non-"}"
\* character, so backtracking never yields another match
matchAt(s, i) ==
    IF i + 1 <= Len(s) /\ s[i] = OB /\ s[i + 1] = OB
    THEN LET e == classRunEnd(s, i + 2)
         IN  IF e > i + 2 /\ e + 1 <= Len(s) /\ s[e] = CB /\ s[e + 1] = CB
             THEN [found |-> TRUE, index |-> i, last |-> e + 1,
                   group |-> SubSeq(s, i + 2, e - 1),
                   text |-> SubSeq(s, i, e + 1)]
             ELSE NoMatch
    ELSE NoMatch

\* RegExp.prototype.exec with the g flag: the leftmost match that starts at
\* or after lastIndex (0-based offset, i.e. position lastIndex + 1)
RECURSIVE regexExecFrom(_, _)
regexExecFrom(s, i) ==
    IF i > Len(s) THEN NoMatch
    ELSE LET m == matchAt(s, i)
         IN  IF m.found THEN m ELSE regexExecFrom(s, i + 1)

regexExec(s, lastIndex) == regexExecFrom(s, lastIndex + 1)

\* the successive results of regex.exec(content) until it returns null; the
\* regex object carries lastIndex from one call to the next
RECURSIVE execAll(_, _)
execAll(s, lastIndex) ==
    LET match == regexExec(s, lastIndex)
    IN  IF ~match.found THEN <<>>
        ELSE <<match>> \o execAll(s, match.last)

(***************************************************************************)
(* extractVariables, storage.ts 169-182                                    *)
(***************************************************************************)
\* a plausible slip: the duplicate test is dropped
pushNameNoDedup(list, variableName) ==
    IF variableName # <<>> THEN Append(list, variableName) ELSE list

\* a plausible slip: the truthiness test of the name is dropped
pushNameKeepEmpty(list, variableName) ==
    IF ~includes(list, variableName) THEN Append(list, variableName) ELSE list

\* lines 176-178: if (variableName && !variables.includes(variableName)) push
pushName(list, variableName) ==
    IF variableName # <<>> /\ ~includes(list, variableName)
    THEN Append(list, variableName)
    ELSE list

\* lines 174-179: the body of the while loop, once per match
RECURSIVE extractLoop(_, _)
extractLoop(matches, list) ==
    IF matches = <<>> THEN list
    ELSE extractLoop(Tail(matches), pushName(list, trim(Head(matches).group)))

extractVariables(content) == extractLoop(execAll(content, 0), <<>>)

(***************************************************************************)
(* validateTemplate, storage.ts 187-202                                    *)
(***************************************************************************)
MsgPrefix == <<"V", "a", "r", "i", "a", "b", "l", "e", " ", "'">>
MsgSuffix == <<"'", " ", "i", "s", " ", "n", "o", "t", " ", "d", "e", "f", "i",
               "n", "e", "d", " ", "i", "n", " ", "s", "e", "t", "t", "i", "n",
               "g", "s">>

\* line 190: availableVariables.map(v => v.name)
mapNames(vs) == [i \in 1..Len(vs) |-> vs[i].name]

\* lines 194-197: the error pushed for one missing name
missingError(variableName) ==
    [field |-> "content", message |-> MsgPrefix \o variableName \o MsgSuffix]

\* a plausible slip: the test of line 193 without its negation
isMissingInverted(names, variableName) == includes(names, variableName)

\* line 193: !availableVariableNames.includes(variableName)
isMissing(names, variableName) == ~includes(names, variableName)

\* lines 192-199: for (const variableName of requiredVariables)
RECURSIVE validateLoop(_, _)
validateLoop(required, names) ==
    IF required = <<>> THEN <<>>
    ELSE (IF isMissing(names, Head(required))
          THEN <<missingError(Head(required))>>
          ELSE <<>>) \o validateLoop(Tail(required), names)

\* a plausible slip: the loop is left after the first required name
validateTemplateFirstName(t, availableVariables) ==
    LET required == extractVariables(t.content)
    IN  IF required = <<>> THEN <<>>
        ELSE validateLoop(<<Head(required)>>, mapNames(availableVariables))

validateTemplate(t, availableVariables) ==
    validateLoop(extractVariables(t.content), mapNames(availableVariables))

(***************************************************************************)
(* processTemplate, storage.ts 207-218                                     *)
(***************************************************************************)
mapHas(m, k) == \E i \in 1..Len(m) : m[i].key = k
\* Map.prototype.get of a key the map has
mapGet(m, k) == m[CHOOSE i \in 1..Len(m) : m[i].key = k].value

\* a plausible slip: the first entry of a name wins
mapSetKeepFirst(m, k, v) ==
    IF mapHas(m, k) THEN m ELSE Append(m, [key |-> k, value |-> v])

\* Map.prototype.set: an existing key keeps its place and takes the new value
mapSet(m, k, v) ==
    IF mapHas(m, k)
    THEN [i \in 1..Len(m) |-> IF m[i].key = k THEN [key |-> k, value |-> v] ELSE m[i]]
    ELSE Append(m, [key |-> k, value |-> v])

\* line 209: new Map(variables.map(v => [v.name, v.value]))
RECURSIVE newMapFrom(_, _)
newMapFrom(m, vs) ==
    IF vs = <<>> THEN m
    ELSE newMapFrom(mapSet(m, Head(vs).name, Head(vs).value), Tail(vs))

newVariableMap(vs) == newMapFrom(<<>>, vs)

\* a plausible slip: the name is looked up as captured
lookupNameUntrimmed(match) == match.group

\* line 213: const trimmedName = variableName.trim()
lookupName(match) == trim(match.group)

\* a plausible slip: `??` for `||`, an empty value replaces the placeholder
replacerBlanking(variableMap, match) ==
    IF mapHas(variableMap, lookupName(match))
    THEN mapGet(variableMap, lookupName(match))
    ELSE match.text

\* lines 212-215: the replace callback; `get(...) || match` keeps the matched
\* text when the name is absent (undefined) or its value is the empty string
replacer(variableMap, match) ==
    LET trimmedName == lookupName(match)
    IN  IF mapHas(variableMap, trimmedName) /\ mapGet(variableMap, trimmedName) # <<>>
        THEN mapGet(variableMap, trimmedName)
        ELSE match.text

\* the callback's invocations, in order: what it was given and what it returned
replacerCalls(content, variableMap) ==
    LET matches == execAll(content, 0)
    IN  [i \in 1..Len(matches) |->
            [index |-> matches[i].index, text |-> matches[i].text,
             name |-> lookupName(matches[i]),
             out |-> replacer(variableMap, matches[i])]]

\* String.prototype.replace with a g-flag regex and a function: every match,
\* left to right over the original string, replaced by the callback's return
\* value, the text between the matches copied
RECURSIVE replaceAll(_, _, _, _)
replaceAll(content, lastIndex, matches, variableMap) ==
    IF matches = <<>> THEN SubSeq(content, lastIndex + 1, Len(content))
    ELSE SubSeq(content, lastIndex + 1, Head(matches).index - 1)
         \o replacer(variableMap, Head(matches))
         \o replaceAll(content, Head(matches).last, Tail(matches), variableMap)

\* a plausible slip: the output of the replacement is scanned once more
processTemplateRescan(t, vs) ==
    LET once == replaceAll(t.content, 0, execAll(t.content, 0), newVariableMap(vs))
    IN  replaceAll(once, 0, execAll(once, 0), newVariableMap(vs))

processTemplate(t, vs) ==
    replaceAll(t.content, 0, execAll(t.content, 0), newVariableMap(vs))

(***************************************************************************)
(* Timestamps: Date objects and what JSON carries for them                 *)
(***************************************************************************)
\* a Date object holding instant t (milliseconds since the epoch)
Date(t) == [k |-> "date", t |-> t]
\* the Date object `new Date(NaN)`
InvalidDate == [k |-> "invalid", t |-> 0]
\* JSON values met where a timestamp is expected: an ISO-8601 string, a
\* string that does not parse as a date (or no field at all), and null
Iso(t) == [k |-> "iso", t |-> t]
BadString == [k |-> "bad", t |-> 0]
JsonNull == [k |-> "null", t |-> 0]

\* new Date(x): a Date is copied, an ISO string parsed, null is the number 0,
\* i.e. the epoch, anything else gives an Invalid Date
newDate(x) ==
    CASE x.k = "date" -> x
      [] x.k = "iso" -> Date(x.t)
      [] x.k = "null" -> Date(0)
      [] OTHER -> InvalidDate

\* Date.prototype.toJSON, which JSON.stringify calls: toISOString() of a
\* valid date, null of an invalid one
dateToJSON(d) == IF d.k = "date" THEN Iso(d.t) ELSE JsonNull

(***************************************************************************)
(* Inputs of the engine                                                    *)
(***************************************************************************)
\* the pieces a content is put together from
Pieces ==
    { <<"{", "{">>, <<"}", "}">>, <<"{">>, <<"}">>, <<" ">>, <<"a">>, <<"b">>,
      <<"{", "{", "a", "}", "}">>,
      <<"{", "{", " ", "b", " ", "}", "}">>,
      <<"{", "{", " ", "}", "}">> }

RECURSIVE Concats(_)
Concats(n) ==
    IF n = 0 THEN {<<>>}
    ELSE LET shorter == Concats(n - 1)
         IN  shorter \cup {p \o q : p \in shorter, q \in Pieces}

\* 'Hello {{name}}, your {{order_{{type}}_id}} is ready.' (part_001, line 39)
NestedExample ==
    <<"H", "e", "l", "l", "o", " ", "{", "{", "n", "a", "m", "e", "}", "}",
      ",", " ", "y", "o", "u", "r", " ", "{", "{", "o", "r", "d", "e", "r",
      "_", "{", "{", "t", "y", "p", "e", "}", "}", "_", "i", "d", "}", "}",
      " ", "i", "s", " ", "r", "e", "a", "d", "y", ".">>

Contents == Concats(MaxPieces) \cup {NestedExample}

EngineTemplate(content) ==
    [id |-> "t1", title |-> <<"T">>, content |-> content,
     createdAt |-> Date(1), updatedAt |-> Date(1)]

EngineVariable(id, name, value) ==
    [id |-> id, name |-> name, value |-> value,
     description |-> [def |-> FALSE, text |-> <<>>],
     createdAt |-> Date(1), updatedAt |-> Date(1)]

\* the variable lists handed to the engine; nothing in the engine keeps names
\* unique or non-empty, or values non-empty
EngineVariableLists ==
    { <<>>,
      <<EngineVariable("v1", <<"a">>, <<"X">>)>>,
      <<EngineVariable("v1", <<"a">>, <<"X">>), EngineVariable("v2", <<"b">>, <<"Y", "Z">>)>>,
      <<EngineVariable("v1", <<"a">>, <<>>), EngineVariable("v2", <<"b">>, <<"Y", "Z">>)>>,
      <<EngineVariable("v1", <<"a">>, <<"X">>), EngineVariable("v2", <<"a">>, <<>>)>>,
      <<EngineVariable("v1", <<"a">>, <<>>), EngineVariable("v2", <<"a">>, <<"X">>)>>,
      <<EngineVariable("v1", <<>>, <<"E">>), EngineVariable("v2", <<"b">>, <<"Y", "Z">>)>> }

(***************************************************************************)
(* The engine as a state machine: one call per step                        *)
(***************************************************************************)
NoEngineOut == [fn |-> "none", value |-> <<>>, matches |-> <<>>, calls |-> <<>>]

EngineInputs ==
    /\ template \in {EngineTemplate(c) : c \in Contents}
    /\ variables \in EngineVariableLists
    /\ engineOut = NoEngineOut

ExtractVariables ==
    /\ UNCHANGED <<storeVars, appVars>>
    /\ engineOut' = [fn |-> "extractVariables",
                     value |-> extractVariables(template.content),
                     matches |-> execAll(template.content, 0),
                     calls |-> <<>>]
    /\ UNCHANGED <<template, variables>>

ValidateTemplate ==
    /\ UNCHANGED <<storeVars, appVars>>
    /\ engineOut' = [fn |-> "validateTemplate",
                     value |-> validateTemplate(template, variables),
                     matches |-> execAll(template.content, 0),
                     calls |-> <<>>]
    /\ UNCHANGED <<template, variables>>

ProcessTemplate ==
    /\ UNCHANGED <<storeVars, appVars>>
    /\ engineOut' = [fn |-> "processTemplate",
                     value |-> processTemplate(template, variables),
                     matches |-> execAll(template.content, 0),
                     calls |-> replacerCalls(template.content, newVariableMap(variables))]
    /\ UNCHANGED <<template, variables>>

EngineNext ==
    \/ ExtractVariables
    \/ ValidateTemplate
    \/ ProcessTemplate

\* variable lists with values that are themselves placeholders: of another
\* variable of the list, of the variable itself, of no variable
RescanVariableLists ==
    { <<EngineVariable("v1", <<"a">>, <<"{", "{", "b", "}", "}">>),
        EngineVariable("v2", <<"b">>, <<"Y", "Z">>)>>,
      <<EngineVariable("v1", <<"a">>, <<"{", "{", "a", "}", "}">>),
        EngineVariable("v2", <<"b">>, <<"{", "{">>)>>,
      <<EngineVariable("v1", <<"b">>, <<"{", "{", " ", "a", "}", "}">>)>> }

RescanInputs ==
    /\ template \in {EngineTemplate(c) : c \in Contents}
    /\ variables \in RescanVariableLists
    /\ engineOut = NoEngineOut

RescanNext == ProcessTemplate

(***************************************************************************)
(* chrome.storage.local and the records kept in it                         *)
(***************************************************************************)
\* storage.ts 3-6
STORAGE_KEYS == [templatesKey |-> "support_templates", variablesKey |-> "support_variables"]
KeyT == STORAGE_KEYS.templatesKey
KeyV == STORAGE_KEYS.variablesKey

Absent == [present |-> FALSE, val |-> <<>>]
Present(records) == [present |-> TRUE, val |-> records]
EmptyStore == [key \in {KeyT, KeyV} |-> Absent]

NoDescription == [def |-> FALSE, text |-> <<>>]

\* records as a bundle's JSON carries them
RawTemplatePool ==
    { [id |-> "t1", title |-> <<"T">>, content |-> <<"{", "{", "a", "}", "}">>,
       createdAt |-> Iso(1), updatedAt |-> BadString] }

RawVariablePool ==
    { [id |-> "v1", name |-> <<"a">>, value |-> <<"X">>,
       description |-> [def |-> TRUE, text |-> <<"d">>],
       createdAt |-> Iso(1), updatedAt |-> Iso(1)] }

RECURSIVE SeqsUpTo(_, _)
SeqsUpTo(S, n) ==
    IF n = 0 THEN {<<>>}
    ELSE LET shorter == SeqsUpTo(S, n - 1)
         IN  shorter \cup {Append(q, x) : q \in shorter, x \in S}

\* storage.ts 21-25, 55-59, 144-154: the spread with both timestamps rebuilt
rehydrate(record) ==
    [record EXCEPT !.createdAt = newDate(@), !.updatedAt = newDate(@)]

mapRehydrate(records) == [i \in 1..Len(records) |-> rehydrate(records[i])]

\* JSON.stringify of a record: its Date fields through toJSON
recordToJSON(record) ==
    [record EXCEPT !.createdAt = dateToJSON(@), !.updatedAt = dateToJSON(@)]

mapToJSON(records) == [i \in 1..Len(records) |-> recordToJSON(records[i])]

\* the Template[] and Variable[] values a caller may hold: records as they
\* come out of an import, and out of an import of an export of those
TemplatePool ==
    {rehydrate(r) : r \in RawTemplatePool}
        \cup {rehydrate(recordToJSON(rehydrate(r))) : r \in RawTemplatePool}
VariablePool ==
    {rehydrate(r) : r \in RawVariablePool}
        \cup {rehydrate(recordToJSON(rehydrate(r))) : r \in RawVariablePool}

(***************************************************************************)
(* JSON texts                                                              *)
(***************************************************************************)
Missing == [kind |-> "missing", items |-> <<>>]
ArrayOf(items) == [kind |-> "array", items |-> items]
\* a truthy value that is no array (a string, a number, an object)
NotAnArray == [kind |-> "other", items |-> <<>>]

JsonObject(ts, vs, version, exportedAt) ==
    [isObject |-> TRUE, templates |-> ts, variables |-> vs,
     version |-> version, exportedAt |-> exportedAt]
\* the JSON value null
JsonNullValue ==
    [isObject |-> FALSE, templates |-> Missing, variables |-> Missing,
     version |-> "", exportedAt |-> JsonNull]

\* a text that is the serialization of a JSON value, and one that is none
TextOf(value) == [parses |-> TRUE, value |-> value]
Garbage == [parses |-> FALSE, value |-> JsonNullValue]

\* JSON.parse: throws a SyntaxError on a text that is no JSON
jsonParse(text) ==
    IF text.parses THEN [threw |-> FALSE, value |-> text.value]
    ELSE [threw |-> TRUE, value |-> JsonNullValue]

\* a plausible slip: the two collections change places in the bundle
exportTextSwapped(data, now) ==
    TextOf(JsonObject(ArrayOf(mapToJSON(data.variables)),
                      ArrayOf(mapToJSON(data.templates)),
                      "1.0.0", dateToJSON(Date(now))))

\* storage.ts 122-128: JSON.stringify({...data, version, exportedAt}, null, 2)
exportText(data, now) ==
    TextOf(JsonObject(ArrayOf(mapToJSON(data.templates)),
                      ArrayOf(mapToJSON(data.variables)),
                      "1.0.0", dateToJSON(Date(now))))

\* the texts handed to importData
ImportTexts ==
    { Garbage,
      TextOf(JsonNullValue),
      TextOf(JsonObject(Missing, Missing, "", JsonNull)) }
    \cup {TextOf(JsonObject(ArrayOf(ts), Missing, "1.0.0", Iso(0))) :
            ts \in SeqsUpTo(RawTemplatePool, 1)}
    \cup {TextOf(JsonObject(Missing, ArrayOf(vs), "1.0.0", Iso(0))) :
            vs \in SeqsUpTo(RawVariablePool, 1)}
    \cup {TextOf(JsonObject(NotAnArray, ArrayOf(<<>>), "1.0.0", Iso(0)))}
    \cup {TextOf(JsonObject(ArrayOf(ts), ArrayOf(vs), "1.0.0", Iso(0))) :
            ts \in SeqsUpTo(RawTemplatePool, MaxRecs),
            vs \in SeqsUpTo(RawVariablePool, MaxRecs)}

(***************************************************************************)
(* StorageService, storage.ts 11-162                                       *)
(***************************************************************************)
StoreError == "Storage error"
ImportError == "Failed to import data. Please check the file format."

Resolved(list) == [status |-> "ok", error |-> "none", list |-> list]
Rejected(error) == [status |-> "failed", error |-> error, list |-> <<>>]

\* a plausible slip: the catch block rethrows, as saveTemplates does
getTemplatesRethrow(getOk, item) ==
    IF getOk
    THEN Resolved(mapRehydrate(IF item.present THEN item.val ELSE <<>>))
    ELSE Rejected(StoreError)

\* storage.ts 15-30: item is what the store holds under the key; a failed
\* get is caught and answered with []
getTemplates(getOk, item) ==
    IF getOk
    THEN Resolved(mapRehydrate(IF item.present THEN item.val ELSE <<>>))
    ELSE Resolved(<<>>)

\* storage.ts 49-64
getVariables(getOk, item) ==
    IF getOk
    THEN Resolved(mapRehydrate(IF item.present THEN item.val ELSE <<>>))
    ELSE Resolved(<<>>)

\* a plausible slip: the catch block swallows the error, as getTemplates does
saveTemplatesSwallow(setOk) == Resolved(<<>>)

\* storage.ts 35-44 and 69-78: a failed set is logged and rethrown
saveTemplates(setOk) == IF setOk THEN Resolved(<<>>) ELSE Rejected(StoreError)
saveVariables(setOk) == IF setOk THEN Resolved(<<>>) ELSE Rejected(StoreError)

\* storage.ts 105-115: a failed remove is logged and rethrown
clearAllData(removeOk) == IF removeOk THEN Resolved(<<>>) ELSE Rejected(StoreError)

NoPlan == [ok |-> FALSE, templates |-> <<>>, variables |-> <<>>]

\* a plausible slip: a field that is missing is read as []
importPlanDefaulting(text) ==
    LET parsed == jsonParse(text)
        data == parsed.value
        items(f) == IF f.kind = "missing" THEN <<>> ELSE f.items
    IN  IF parsed.threw \/ ~data.isObject THEN NoPlan
        ELSE IF data.templates.kind = "other" \/ data.variables.kind = "other"
        THEN NoPlan
        ELSE [ok |-> TRUE,
              templates |-> mapRehydrate(items(data.templates)),
              variables |-> mapRehydrate(items(data.variables))]

\* storage.ts 136-154: what importData is about to save, or that it threw
\* before saving: JSON.parse threw, a property of null was read, a field is
\* missing (line 139), or a field has no map method
importPlan(text) ==
    LET parsed == jsonParse(text)
        data == parsed.value
    IN  IF parsed.threw \/ ~data.isObject THEN NoPlan
        ELSE IF data.templates.kind = "missing" \/ data.variables.kind = "missing"
        THEN NoPlan
        ELSE IF data.templates.kind # "array" \/ data.variables.kind # "array"
        THEN NoPlan
        ELSE [ok |-> TRUE,
              templates |-> mapRehydrate(data.templates.items),
              variables |-> mapRehydrate(data.variables.items)]

(***************************************************************************)
(* The service as a state machine: one step per store call                 *)
(***************************************************************************)
Instants == 0..MaxInstant
TemplateLists == SeqsUpTo(TemplatePool, MaxRecs)
VariableLists == SeqsUpTo(VariablePool, MaxRecs)

NoText == Garbage
NoValue == [templates |-> <<>>, variables |-> <<>>, text |-> NoText]

\* name: the call in progress; tState, vState: its store call on each key
\* ("none", "pending", "ok", "failed"); tVal, vVal: what is being written or
\* was read; the other fields record the call for the properties
IdleOp ==
    [name |-> "idle", tState |-> "none", vState |-> "none",
     tVal |-> <<>>, vVal |-> <<>>, input |-> NoText, pre |-> EmptyStore,
     getFailed |-> {}, fromExport |-> FALSE, exportClean |-> FALSE,
     reported |-> FALSE]

NoResult ==
    [op |-> "none", status |-> "none", error |-> "none", value |-> NoValue,
     input |-> NoText, pre |-> EmptyStore, writes |-> 0, getFailed |-> {},
     fromExport |-> FALSE, exportClean |-> FALSE,
     tWrite |-> "none", vWrite |-> "none"]

Finished(name, outcome, value, pre) ==
    [NoResult EXCEPT !.op = name, !.status = outcome.status,
                     !.error = outcome.error, !.value = value, !.pre = pre]

StoreInit ==
    /\ store = EmptyStore
    /\ op = IdleOp
    /\ result = NoResult

\* StorageService.getTemplates()
GetTemplates ==
    /\ UNCHANGED <<engineVars, appVars, inflight>>
    /\ op.name = "idle"
    /\ \E getOk \in BOOLEAN :
        LET out == getTemplates(getOk, store[KeyT])
        IN  result' = [Finished("getTemplates", out,
                                [NoValue EXCEPT !.templates = out.list], store)
                         EXCEPT !.getFailed = IF getOk THEN {} ELSE {KeyT}]
    /\ UNCHANGED <<store, op>>

\* StorageService.getVariables()
GetVariables ==
    /\ UNCHANGED <<engineVars, appVars, inflight>>
    /\ op.name = "idle"
    /\ \E getOk \in BOOLEAN :
        LET out == getVariables(getOk, store[KeyV])
        IN  result' = [Finished("getVariables", out,
                                [NoValue EXCEPT !.variables = out.list], store)
                         EXCEPT !.getFailed = IF getOk THEN {} ELSE {KeyV}]
    /\ UNCHANGED <<store, op>>

\* StorageService.saveTemplates(templates)
SaveTemplates ==
    /\ UNCHANGED <<engineVars, appVars, inflight>>
    /\ op.name = "idle"
    /\ \E templates \in TemplateLists, setOk \in BOOLEAN :
        /\ store' = IF setOk THEN [store EXCEPT ![KeyT] = Present(templates)] ELSE store
        /\ result' = [Finished("saveTemplates", saveTemplates(setOk),
                               [NoValue EXCEPT !.templates = templates], store)
                        EXCEPT !.writes = 1]
    /\ UNCHANGED op

\* StorageService.saveVariables(variables)
SaveVariables ==
    /\ UNCHANGED <<engineVars, appVars, inflight>>
    /\ op.name = "idle"
    /\ \E vs \in VariableLists, setOk \in BOOLEAN :
        /\ store' = IF setOk THEN [store EXCEPT ![KeyV] = Present(vs)] ELSE store
        /\ result' = [Finished("saveVariables", saveVariables(setOk),
                               [NoValue EXCEPT !.variables = vs], store)
                        EXCEPT !.writes = 1]
    /\ UNCHANGED op

\* StorageService.clearAllData(): one remove call for both keys
ClearAllData ==
    /\ UNCHANGED <<engineVars, appVars, inflight>>
    /\ op.name = "idle"
    /\ \E removeOk \in BOOLEAN :
        /\ store' = IF removeOk THEN EmptyStore ELSE store
        /\ result' = Finished("clearAllData", clearAllData(removeOk), NoValue, store)
    /\ UNCHANGED op

\* storage.ts 83-90 and 120-121: getAllData(), alone or as the first line
\* of exportData(); both gets are issued before either is awaited
GetAllDataBegin ==
    /\ UNCHANGED <<engineVars, appVars, inflight>>
    /\ op.name = "idle"
    /\ \E name \in {"getAllData", "exportData"} :
        op' = [IdleOp EXCEPT !.name = name, !.tState = "pending",
                             !.vState = "pending", !.pre = store]
    /\ result' = NoResult
    /\ UNCHANGED store

\* the get of the templates key comes back
ReadTemplatesDone ==
    /\ UNCHANGED <<engineVars, appVars, inflight>>
    /\ op.name \in {"getAllData", "exportData"}
    /\ op.tState = "pending"
    /\ \E getOk \in BOOLEAN :
        LET out == getTemplates(getOk, store[KeyT])
        IN  op' = [op EXCEPT !.tState = out.status, !.tVal = out.list,
                             !.getFailed = IF getOk THEN @ ELSE @ \cup {KeyT}]
    /\ UNCHANGED <<store, result>>

\* the get of the variables key comes back
ReadVariablesDone ==
    /\ UNCHANGED <<engineVars, appVars, inflight>>
    /\ op.name \in {"getAllData", "exportData"}
    /\ op.vState = "pending"
    /\ \E getOk \in BOOLEAN :
        LET out == getVariables(getOk, store[KeyV])
        IN  op' = [op EXCEPT !.vState = out.status, !.vVal = out.list,
                             !.getFailed = IF getOk THEN @ ELSE @ \cup {KeyV}]
    /\ UNCHANGED <<store, result>>

\* a plausible slip: the outcome of the second promise is not looked at
promiseAllFirstDecides(tState, vState) ==
    IF tState = "failed" THEN "failed"
    ELSE IF tState = "ok" /\ vState # "pending" THEN "ok"
    ELSE "pending"

\* Promise.all of the two promises: rejected as soon as one is rejected,
\* fulfilled once both are fulfilled
promiseAll(tState, vState) ==
    IF tState = "failed" \/ vState = "failed" THEN "failed"
    ELSE IF tState = "ok" /\ vState = "ok" THEN "ok"
    ELSE "pending"

\* storage.ts 89: getAllData returns { templates, variables }
GetAllDataReturn ==
    /\ UNCHANGED <<engineVars, appVars, inflight>>
    /\ op.name = "getAllData"
    /\ promiseAll(op.tState, op.vState) # "pending"
    /\ result' =
         IF promiseAll(op.tState, op.vState) = "ok"
         THEN [Finished("getAllData", Resolved(<<>>),
                        [NoValue EXCEPT !.templates = op.tVal, !.variables = op.vVal],
                        op.pre)
                 EXCEPT !.getFailed = op.getFailed]
         ELSE Finished("getAllData", Rejected(StoreError), NoValue, op.pre)
    /\ op' = IdleOp
    /\ UNCHANGED store

\* storage.ts 122-128: exportData stamps the bundle and serializes it
ExportDataReturn ==
    /\ UNCHANGED <<engineVars, appVars, inflight>>
    /\ op.name = "exportData"
    /\ promiseAll(op.tState, op.vState) # "pending"
    /\ \E now \in Instants :
         result' =
           IF promiseAll(op.tState, op.vState) = "ok"
           THEN [Finished("exportData", Resolved(<<>>),
                          [templates |-> op.tVal, variables |-> op.vVal,
                           text |-> exportText([templates |-> op.tVal,
                                                variables |-> op.vVal], now)],
                          op.pre)
                   EXCEPT !.getFailed = op.getFailed]
           ELSE Finished("exportData", Rejected(StoreError), NoValue, op.pre)
    /\ op' = IdleOp
    /\ UNCHANGED store

\* the texts a caller may hand to importData: any of ImportTexts, or the
\* text the exportData call just before returned
ImportInputs ==
    {[text |-> t, fromExport |-> FALSE, exportClean |-> FALSE] : t \in ImportTexts}
    \cup (IF result.op = "exportData" /\ result.status = "ok"
          THEN {[text |-> result.value.text, fromExport |-> TRUE,
                 exportClean |-> result.getFailed = {}]}
          ELSE {})

\* a plausible slip: the catch block rethrows what it caught
ImportFailedRethrow(in, pre, writes) ==
    [Finished("importData", Rejected(StoreError), NoValue, pre)
       EXCEPT !.input = in.text, !.writes = writes,
              !.fromExport = in.fromExport, !.exportClean = in.exportClean]

ImportFailed(in, pre, writes) ==
    [Finished("importData", Rejected(ImportError), NoValue, pre)
       EXCEPT !.input = in.text, !.writes = writes,
              !.fromExport = in.fromExport, !.exportClean = in.exportClean]

ImportSucceeded(in, pre, writes) ==
    [Finished("importData", Resolved(<<>>), NoValue, pre)
       EXCEPT !.input = in.text, !.writes = writes,
              !.fromExport = in.fromExport, !.exportClean = in.exportClean]

\* storage.ts 134-156 up to the await of saveAllData: parse, check, rebuild
\* the timestamps, and (storage.ts 95-100) issue both set calls; whatever
\* is thrown on the way is caught and replaced by the one import error
ImportDataBegin ==
    /\ UNCHANGED <<engineVars, appVars, inflight>>
    /\ op.name = "idle"
    /\ \E in \in ImportInputs :
        LET plan == importPlan(in.text)
        IN  IF plan.ok
            THEN /\ op' = [IdleOp EXCEPT !.name = "importData",
                                         !.tState = "pending", !.vState = "pending",
                                         !.tVal = plan.templates,
                                         !.vVal = plan.variables,
                                         !.input = in.text, !.pre = store,
                                         !.fromExport = in.fromExport,
                                         !.exportClean = in.exportClean]
                 /\ result' = NoResult
            ELSE /\ op' = op
                 /\ result' = ImportFailed(in, store, 0)
    /\ UNCHANGED store

\* what the caller of importData sees once a set call has come back: nothing
\* new when the call was answered before or Promise.all is still pending;
\* tWrite and vWrite record how far the two set calls have come
ImportReport(o, res) ==
    LET in == [text |-> o.input, fromExport |-> o.fromExport,
               exportClean |-> o.exportClean]
        all == promiseAll(o.tState, o.vState)
        shown == IF o.reported \/ all = "pending" THEN res
                ELSE IF all = "ok" THEN ImportSucceeded(in, o.pre, 2)
                ELSE ImportFailed(in, o.pre, 2)
    IN  [shown EXCEPT !.tWrite = o.tState, !.vWrite = o.vState]

ImportAfter(o) ==
    IF o.tState # "pending" /\ o.vState # "pending" THEN IdleOp
    ELSE [o EXCEPT !.reported = promiseAll(o.tState, o.vState) # "pending"]

\* the set of the templates key issued by saveTemplates comes back
WriteTemplatesDone ==
    /\ UNCHANGED <<engineVars, appVars, inflight>>
    /\ op.name = "importData"
    /\ op.tState = "pending"
    /\ \E setOk \in BOOLEAN :
        LET o == [op EXCEPT !.tState = saveTemplates(setOk).status]
        IN  /\ store' = IF setOk THEN [store EXCEPT ![KeyT] = Present(op.tVal)]
                        ELSE store
            /\ result' = ImportReport(o, result)
            /\ op' = ImportAfter(o)

\* the set of the variables key issued by saveVariables comes back
WriteVariablesDone ==
    /\ UNCHANGED <<engineVars, appVars, inflight>>
    /\ op.name = "importData"
    /\ op.vState = "pending"
    /\ \E setOk \in BOOLEAN :
        LET o == [op EXCEPT !.vState = saveVariables(setOk).status]
        IN  /\ store' = IF setOk THEN [store EXCEPT ![KeyV] = Present(op.vVal)]
                        ELSE store
            /\ result' = ImportReport(o, result)
            /\ op' = ImportAfter(o)

Next ==
    \/ GetTemplates
    \/ GetVariables
    \/ SaveTemplates
    \/ SaveVariables
    \/ ClearAllData
    \/ GetAllDataBegin
    \/ ReadTemplatesDone
    \/ ReadVariablesDone
    \/ GetAllDataReturn
    \/ ExportDataReturn
    \/ ImportDataBegin
    \/ WriteTemplatesDone
    \/ WriteVariablesDone

(***************************************************************************)
(* exportData while another caller writes: the store calls of the other   *)
(* caller land between the two gets of getAllData                          *)
(***************************************************************************)
\* what the other caller writes
RaceTemplateLists == {<<rehydrate(r)>> : r \in RawTemplatePool}
RaceVariableLists == {<<rehydrate(r)>> : r \in RawVariablePool}

\* storage.ts 120-121 with 83-87: exportData calls getAllData, which issues
\* both gets; seen collects what the store holds from now on
ExportDataBegin ==
    /\ UNCHANGED <<engineVars, store, manager, editor, clock, made, clip, call, inflight>>
    /\ op.name = "idle"
    /\ op' = [IdleOp EXCEPT !.name = "exportData", !.tState = "pending",
                            !.vState = "pending", !.pre = store]
    /\ result' = NoResult
    /\ seen' = {store}

\* storage.ts 35-44, and the first write of saveAllData 95-100, called by
\* another caller: its set of the templates key
RaceSaveTemplates ==
    /\ UNCHANGED <<engineVars, op, result, manager, editor, clock, made, clip, call, inflight>>
    /\ \E ts \in RaceTemplateLists, setOk \in BOOLEAN :
        store' = IF saveTemplates(setOk).status = "ok"
                 THEN [store EXCEPT ![KeyT] = Present(ts)]
                 ELSE store
    /\ seen' = IF op.name = "exportData" THEN seen \cup {store'} ELSE seen

\* storage.ts 69-78, and the second write of saveAllData 95-100, called by
\* another caller: its set of the variables key
RaceSaveVariables ==
    /\ UNCHANGED <<engineVars, op, result, manager, editor, clock, made, clip, call, inflight>>
    /\ \E vs \in RaceVariableLists, setOk \in BOOLEAN :
        store' = IF saveVariables(setOk).status = "ok"
                 THEN [store EXCEPT ![KeyV] = Present(vs)]
                 ELSE store
    /\ seen' = IF op.name = "exportData" THEN seen \cup {store'} ELSE seen

\* storage.ts 105-115 called by another caller: one remove of both keys
RaceClearAllData ==
    /\ UNCHANGED <<engineVars, op, result, manager, editor, clock, made, clip, call, inflight>>
    /\ \E removeOk \in BOOLEAN :
        store' = IF clearAllData(removeOk).status = "ok" THEN EmptyStore ELSE store
    /\ seen' = IF op.name = "exportData" THEN seen \cup {store'} ELSE seen

RaceNext ==
    \/ ExportDataBegin
    \/ ReadTemplatesDone
    \/ ReadVariablesDone
    \/ ExportDataReturn
    \/ RaceSaveTemplates
    \/ RaceSaveVariables
    \/ RaceClearAllData

(***************************************************************************)
(* The components: their state before anything is mounted                  *)
(***************************************************************************)
NoTemplate ==
    [id |-> <<>>, title |-> <<>>, content |-> <<>>,
     createdAt |-> InvalidDate, updatedAt |-> InvalidDate]

\* part_007 10-12: useState([]), useState([]), useState(true); mounted
\* tells whether the effect of lines 15-17 has run
NoManager ==
    [mounted |-> FALSE, templates |-> <<>>, variables |-> <<>>,
     loading |-> TRUE]

\* TemplateEditor.tsx 18-23: selectedTemplate, title, content,
\* validationErrors; saved: the last handleSave, the form and the variables
\* it ran with, whether it called onTemplateSave and with which template
NoSave == [ran |-> FALSE, called |-> FALSE, template |-> NoTemplate,
           title |-> <<>>, content |-> <<>>, variables |-> <<>>,
           written |-> FALSE]
NoEditor ==
    [selectedTemplate |-> [isNull |-> TRUE, value |-> NoTemplate],
     title |-> <<>>, content |-> <<>>, validationErrors |-> <<>>,
     saved |-> NoSave]

NoMade == [fn |-> "none", args |-> <<>>, now |-> 0, id |-> <<>>, value |-> NoTemplate]

\* fn: the handler; arg: the record it was called with (of a delete, its
\* id); templates, variables, pre: the state of TemplateManager and the
\* store when it was called; called: whether Settings went on to call the
\* handler of TemplateManager; setOk: whether the store accepted the write;
\* threw: whether the handler rejected
NoCall ==
    [fn |-> "none", arg |-> NoTemplate, templates |-> <<>>, variables |-> <<>>,
     pre |-> EmptyStore, called |-> FALSE, setOk |-> TRUE, threw |-> FALSE]

\* clipboard: what the system clipboard holds; textAreas: the textarea
\* elements attached to document.body; the other fields record the last
\* copyToClipboard call: its argument, whether navigator.clipboard exists
\* and the context is secure, what writeText did ("none" when it was not
\* called, "ok", "failed"), what execCommand did ("none", "true", "false",
\* "throws"), and how the returned promise settled
NoClip ==
    [clipboard |-> <<>>, textAreas |-> 0, text |-> <<>>,
     hasClipboard |-> FALSE, isSecureContext |-> FALSE,
     writeText |-> "none", execCommand |-> "none",
     status |-> "none", error |-> "none"]

AppIdle ==
    /\ manager = NoManager
    /\ editor = NoEditor
    /\ clock = 0
    /\ made = NoMade
    /\ seen = {}
    /\ clip = NoClip
    /\ call = NoCall
    /\ inflight = <<>>

(***************************************************************************)
(* generateId, createTemplate, createVariable, storage.ts 220-254          *)
(***************************************************************************)
Base36Digits ==
    <<"0", "1", "2", "3", "4", "5", "6", "7", "8", "9", "a", "b", "c", "d",
      "e", "f", "g", "h", "i", "j", "k", "l", "m", "n", "o", "p", "q", "r",
      "s", "t", "u", "v", "w", "x", "y", "z">>

\* Number.prototype.toString(36) of a natural number
RECURSIVE toString36(_)
toString36(n) ==
    IF n < Len(Base36Digits) THEN <<Base36Digits[n + 1]>>
    ELSE toString36(n \div Len(Base36Digits))
            \o <<Base36Digits[(n % Len(Base36Digits)) + 1]>>

\* Math.random().toString(36).substr(2): the digits after "0.", none at all
\* when Math.random() returned 0
Randoms == {<<>>, <<"k">>}

\* storage.ts 223-225: idNow is what Date.now() returns, rnd the random part
generateId(idNow, rnd) == toString36(idNow) \o rnd

\* a plausible slip: updatedAt is taken from a second reading of the clock
createTemplateTwoClocks(title, content, now, idNow, rnd) ==
    [id |-> generateId(idNow, rnd), title |-> title, content |-> content,
     createdAt |-> Date(now), updatedAt |-> Date(idNow)]

\* storage.ts 230-239: now is the instant of `new Date()` on line 231
createTemplate(title, content, now, idNow, rnd) ==
    [id |-> generateId(idNow, rnd), title |-> title, content |-> content,
     createdAt |-> Date(now), updatedAt |-> Date(now)]

\* storage.ts 244-254
createVariable(name, value, description, now, idNow, rnd) ==
    [id |-> generateId(idNow, rnd), name |-> name, value |-> value,
     description |-> description,
     createdAt |-> Date(now), updatedAt |-> Date(now)]

\* the arguments of the calls
CreateTitles == {<<>>, <<"T">>, <<" ", "T">>}
CreateContents == Concats(1)
CreateNames == {<<"a">>, <<" ", "b">>}
CreateValues == {<<>>, <<"X">>}
CreateDescriptions == {NoDescription, [def |-> TRUE, text |-> <<"d">>]}

\* createTemplate(title, content): the clock is read on line 231 and again
\* inside generateId, where it may have moved on
CreateTemplate ==
    /\ UNCHANGED <<engineVars, storeVars, manager, editor, seen, clip, call, inflight>>
    /\ \E title \in CreateTitles, content \in CreateContents,
          idNow \in clock..MaxInstant, rnd \in Randoms :
        /\ clock' = idNow
        /\ made' = [fn |-> "createTemplate",
                    args |-> [title |-> title, content |-> content],
                    now |-> clock, id |-> generateId(idNow, rnd),
                    value |-> createTemplate(title, content, clock, idNow, rnd)]

\* createVariable(name, value, description?)
CreateVariable ==
    /\ UNCHANGED <<engineVars, storeVars, manager, editor, seen, clip, call, inflight>>
    /\ \E name \in CreateNames, value \in CreateValues,
          description \in CreateDescriptions,
          idNow \in clock..MaxInstant, rnd \in Randoms :
        /\ clock' = idNow
        /\ made' = [fn |-> "createVariable",
                    args |-> [name |-> name, value |-> value,
                              description |-> description],
                    now |-> clock, id |-> generateId(idNow, rnd),
                    value |-> createVariable(name, value, description,
                                             clock, idNow, rnd)]

\* time passes between two calls
Tick ==
    /\ UNCHANGED <<engineVars, storeVars, manager, editor, made, seen, clip, call, inflight>>
    /\ clock < MaxInstant
    /\ clock' = clock + 1

CreateNext ==
    \/ CreateTemplate
    \/ CreateVariable
    \/ Tick

(***************************************************************************)
(* copyToClipboard, src/src/utils/clipboard.ts 4-33                        *)
(***************************************************************************)
\* textarea elements left attached to document.body are counted up to here
MaxTextAreas == 2

CopyError == "Failed to copy to clipboard"

ClipTexts == {<<>>, <<"a">>, <<"b">>}
ExecOutcomes == {"true", "false", "throws"}

\* clipboard.ts 4-33: c is the clipboard and the page before the call;
\* writeOk tells whether navigator.clipboard.writeText resolves, exec what
\* document.execCommand('copy') does. The else branch is taken only when
\* the condition of line 7 is false; a rejected writeText is caught at line
\* 29; execCommand returning false throws nothing; a throwing execCommand
\* skips removeChild
copyToClipboard(c, text, hasClipboard, isSecureContext, writeOk, exec) ==
    LET called == [c EXCEPT !.text = text, !.hasClipboard = hasClipboard,
                            !.isSecureContext = isSecureContext,
                            !.writeText = "none", !.execCommand = "none",
                            !.status = "ok", !.error = "none"]
    IN  IF hasClipboard /\ isSecureContext
        THEN IF writeOk
             THEN [called EXCEPT !.writeText = "ok", !.clipboard = text]
             ELSE [called EXCEPT !.writeText = "failed", !.status = "failed",
                                 !.error = CopyError]
        ELSE CASE exec = "true" ->
                    [called EXCEPT !.execCommand = "true", !.clipboard = text]
               [] exec = "false" ->
                    [called EXCEPT !.execCommand = "false"]
               [] OTHER ->
                    [called EXCEPT !.execCommand = "throws",
                                   !.textAreas = @ + 1,
                                   !.status = "failed", !.error = CopyError]

CopyToClipboard ==
    /\ UNCHANGED <<engineVars, storeVars, manager, editor, clock, made, seen, call, inflight>>
    /\ \E text \in ClipTexts, hasClipboard \in BOOLEAN, isSecureContext \in BOOLEAN,
          writeOk \in BOOLEAN, exec \in ExecOutcomes :
        /\ clip.textAreas < MaxTextAreas \/ exec # "throws"
        /\ clip' = copyToClipboard(clip, text, hasClipboard, isSecureContext,
                                   writeOk, exec)

ClipNext == CopyToClipboard

(***************************************************************************)
(* TemplateManager, part_007                                               *)
(***************************************************************************)
\* the tabs are rendered (part_007 82-90) and no store call is in flight
Ready == manager.mounted /\ ~manager.loading /\ op.name = "idle"

\* a plausible slip: the record is always appended
upsertAppend(list, record) == Append(list, record)

\* part_007 34-36 and 59-61: replace the records with the id of record, or
\* append record when there is none
upsert(list, record) ==
    IF \E i \in 1..Len(list) : list[i].id = record.id
    THEN [i \in 1..Len(list) |-> IF list[i].id = record.id THEN record ELSE list[i]]
    ELSE Append(list, record)

\* part_007 48 and 73: filter(t => t.id !== id)
removeId(list, id) == SelectSeq(list, LAMBDA r : r.id # id)

\* part_007 15-22: the effect of the mount calls loadData, which sets the
\* loading flag and issues getAllData, i.e. (storage.ts 84-87) both gets
Mount ==
    /\ UNCHANGED <<engineVars, editor, clock, made, seen, store, clip, call, inflight>>
    /\ ~manager.mounted
    /\ op.name = "idle"
    /\ manager' = [manager EXCEPT !.mounted = TRUE, !.loading = TRUE]
    /\ op' = [IdleOp EXCEPT !.name = "getAllData", !.tState = "pending",
                            !.vState = "pending", !.pre = store]
    /\ result' = NoResult

\* a plausible slip: the finally block repeats line 21, setLoading(true)
loadDataStillLoading(mgr, res) ==
    IF res.status = "ok"
    THEN [mgr EXCEPT !.templates = res.value.templates,
                     !.variables = res.value.variables,
                     !.loading = TRUE]
    ELSE [mgr EXCEPT !.loading = TRUE]

\* part_007 22-29: the state of TemplateManager once the await of getAllData
\* is over with res: its value is put into the state, a rejection is logged,
\* and either way loading becomes false
loadData(mgr, res) ==
    IF res.status = "ok"
    THEN [mgr EXCEPT !.templates = res.value.templates,
                     !.variables = res.value.variables,
                     !.loading = FALSE]
    ELSE [mgr EXCEPT !.loading = FALSE]

\* part_007 22-29: the await of getAllData is over
LoadDataSettle ==
    /\ UNCHANGED <<engineVars, store, op, editor, clock, made, seen, clip, call, inflight>>
    /\ manager.mounted
    /\ manager.loading
    /\ op.name = "idle"
    /\ result.op = "getAllData"
    /\ manager' = loadData(manager, result)
    /\ result' = NoResult

(***************************************************************************)
(* The handlers of TemplateManager called one at a time, part_007 32-80   *)
(***************************************************************************)
\* a plausible slip: the state is set before the write is awaited
handleTemplateSaveOptimistic(mgr, st, t, setOk) ==
    LET updatedTemplates == upsert(mgr.templates, t)
    IN  [manager |-> [mgr EXCEPT !.templates = updatedTemplates],
         store |-> IF saveTemplates(setOk).status = "ok"
                   THEN [st EXCEPT ![KeyT] = Present(updatedTemplates)] ELSE st,
         threw |-> saveTemplates(setOk).status # "ok"]

\* part_007 32-44: the new list is saved and then put into the state; a
\* failed save is logged and rethrown before setTemplates is reached
handleTemplateSave(mgr, st, t, setOk) ==
    LET updatedTemplates == upsert(mgr.templates, t)
    IN  IF saveTemplates(setOk).status = "ok"
        THEN [manager |-> [mgr EXCEPT !.templates = updatedTemplates],
              store |-> [st EXCEPT ![KeyT] = Present(updatedTemplates)],
              threw |-> FALSE]
        ELSE [manager |-> mgr, store |-> st, threw |-> TRUE]

\* part_007 46-55
handleTemplateDelete(mgr, st, templateId, setOk) ==
    LET updatedTemplates == removeId(mgr.templates, templateId)
    IN  IF saveTemplates(setOk).status = "ok"
        THEN [manager |-> [mgr EXCEPT !.templates = updatedTemplates],
              store |-> [st EXCEPT ![KeyT] = Present(updatedTemplates)],
              threw |-> FALSE]
        ELSE [manager |-> mgr, store |-> st, threw |-> TRUE]

\* part_007 57-69
handleVariableSave(mgr, st, v, setOk) ==
    LET updatedVariables == upsert(mgr.variables, v)
    IN  IF saveVariables(setOk).status = "ok"
        THEN [manager |-> [mgr EXCEPT !.variables = updatedVariables],
              store |-> [st EXCEPT ![KeyV] = Present(updatedVariables)],
              threw |-> FALSE]
        ELSE [manager |-> mgr, store |-> st, threw |-> TRUE]

\* part_007 71-80
handleVariableDelete(mgr, st, variableId, setOk) ==
    LET updatedVariables == removeId(mgr.variables, variableId)
    IN  IF saveVariables(setOk).status = "ok"
        THEN [manager |-> [mgr EXCEPT !.variables = updatedVariables],
              store |-> [st EXCEPT ![KeyV] = Present(updatedVariables)],
              threw |-> FALSE]
        ELSE [manager |-> mgr, store |-> st, threw |-> TRUE]

\* the records the handlers are called with: two ids, two versions of each
\* template and of the first variable
ManagerTemplatePool ==
    { createTemplate(<<"T">>, content, 0, idNow, <<>>) :
        content \in {<<"x">>, <<"y">>}, idNow \in 0..1 }

ManagerVariablePool ==
    { createVariable(<<"a">>, <<"X">>, NoDescription, 0, 0, <<>>),
      createVariable(<<"a">>, <<"Y">>, NoDescription, 0, 0, <<>>),
      createVariable(<<"b">>, <<"X">>, NoDescription, 0, 1, <<>>) }

ManagerIds == {toString36(0), toString36(1)}

\* what the store holds when the app is opened: nothing, or what an import
\* left there, two templates under one id among it
ManagerStores ==
    { EmptyStore,
      [k \in {KeyT, KeyV} |->
         IF k = KeyT
         THEN Present(<<createTemplate(<<"T">>, <<"x">>, 0, 0, <<>>),
                        createTemplate(<<"T">>, <<"y">>, 0, 0, <<>>)>>)
         ELSE Present(<<createVariable(<<"b">>, <<"X">>, NoDescription, 0, 1, <<>>)>>)] }

\* the handler fn was called with arg and came to out
Called(fn, arg, setOk, out) ==
    /\ manager' = out.manager
    /\ store' = out.store
    /\ call' = [fn |-> fn, arg |-> arg, templates |-> manager.templates,
                variables |-> manager.variables, pre |-> store,
                called |-> TRUE, setOk |-> setOk, threw |-> out.threw]

ManagerTemplateSave ==
    /\ UNCHANGED <<engineVars, op, result, editor, clock, made, seen, clip, inflight>>
    /\ Ready
    /\ \E t \in ManagerTemplatePool, setOk \in BOOLEAN :
        /\ Len(upsert(manager.templates, t)) <= MaxRecs + 1
        /\ Called("handleTemplateSave", t, setOk, handleTemplateSave(manager, store, t, setOk))

ManagerTemplateDelete ==
    /\ UNCHANGED <<engineVars, op, result, editor, clock, made, seen, clip, inflight>>
    /\ Ready
    /\ \E id \in ManagerIds, setOk \in BOOLEAN :
        Called("handleTemplateDelete", [NoTemplate EXCEPT !.id = id], setOk,
               handleTemplateDelete(manager, store, id, setOk))

ManagerVariableSave ==
    /\ UNCHANGED <<engineVars, op, result, editor, clock, made, seen, clip, inflight>>
    /\ Ready
    /\ \E v \in ManagerVariablePool, setOk \in BOOLEAN :
        /\ Len(upsert(manager.variables, v)) <= MaxRecs + 1
        /\ Called("handleVariableSave", v, setOk, handleVariableSave(manager, store, v, setOk))

ManagerVariableDelete ==
    /\ UNCHANGED <<engineVars, op, result, editor, clock, made, seen, clip, inflight>>
    /\ Ready
    /\ \E id \in ManagerIds, setOk \in BOOLEAN :
        Called("handleVariableDelete", [NoTemplate EXCEPT !.id = id], setOk,
               handleVariableDelete(manager, store, id, setOk))

\* the popup is closed and opened again, or the page is loaded anew
Reload ==
    /\ UNCHANGED <<engineVars, storeVars, editor, clock, made, seen, clip, inflight>>
    /\ Ready
    /\ manager' = NoManager
    /\ call' = NoCall

ManagerNext ==
    \/ Mount
    \/ ReadTemplatesDone
    \/ ReadVariablesDone
    \/ GetAllDataReturn
    \/ LoadDataSettle
    \/ ManagerTemplateSave
    \/ ManagerTemplateDelete
    \/ ManagerVariableSave
    \/ ManagerVariableDelete
    \/ Reload

(***************************************************************************)
(* The template handlers of TemplateManager with their await, part_007    *)
(* 32-55: a handler computes the new list from the templates of the       *)
(* render it was created in and issues the write; setTemplates runs when  *)
(* the write has settled, so a second handler can start in between        *)
(***************************************************************************)
\* the number of handler calls in one group of overlapping calls
MaxCalls == 2

\* the calls that have not settled
pendingCalls == SelectSeq(inflight, LAMBDA c : c.state = "pending")

\* a handler starts: a call that starts while none is pending opens a new
\* group of overlapping calls
began(fn, arg, updatedTemplates) ==
    LET c == [fn |-> fn, arg |-> arg, updated |-> updatedTemplates, state |-> "pending"]
    IN  inflight' = IF pendingCalls = <<>> THEN <<c>> ELSE Append(inflight, c)

\* part_007 32-38: handleTemplateSave up to its await
HandleTemplateSaveBegin ==
    /\ UNCHANGED <<engineVars, storeVars, manager, editor, clock, made, seen, clip, call>>
    /\ Ready
    /\ pendingCalls = <<>> \/ Len(inflight) < MaxCalls
    /\ \E t \in ManagerTemplatePool :
        /\ Len(upsert(manager.templates, t)) <= MaxRecs
        /\ began("handleTemplateSave", t, upsert(manager.templates, t))

\* part_007 46-49: handleTemplateDelete up to its await
HandleTemplateDeleteBegin ==
    /\ UNCHANGED <<engineVars, storeVars, manager, editor, clock, made, seen, clip, call>>
    /\ Ready
    /\ pendingCalls = <<>> \/ Len(inflight) < MaxCalls
    /\ \E id \in ManagerIds :
        began("handleTemplateDelete", [NoTemplate EXCEPT !.id = id],
              removeId(manager.templates, id))

\* the first call that has not settled
firstPending == CHOOSE i \in 1..Len(inflight) :
    /\ inflight[i].state = "pending"
    /\ \A j \in 1..(i - 1) : inflight[j].state # "pending"

\* part_007 38-43 and 49-54 with storage.ts 35-44: the writes settle in the
\* order they were issued; after a write that succeeded the handler goes on
\* to setTemplates, after one that failed it logs and rethrows
HandleTemplateSettle ==
    /\ UNCHANGED <<engineVars, op, result, editor, clock, made, seen, clip, call>>
    /\ pendingCalls # <<>>
    /\ \E setOk \in BOOLEAN :
        LET c == inflight[firstPending]
        IN  IF saveTemplates(setOk).status = "ok"
            THEN /\ store' = [store EXCEPT ![KeyT] = Present(c.updated)]
                 /\ manager' = [manager EXCEPT !.templates = c.updated]
                 /\ inflight' = [inflight EXCEPT ![firstPending].state = "ok"]
            ELSE /\ UNCHANGED <<store, manager>>
                 /\ inflight' = [inflight EXCEPT ![firstPending].state = "failed"]

\* what the store holds when the page is opened
OverlapStores ==
    { EmptyStore,
      [k \in {KeyT, KeyV} |->
         IF k = KeyT
         THEN Present(<<createTemplate(<<"T">>, <<"x">>, 0, 1, <<>>)>>)
         ELSE Absent] }

OverlapNext ==
    \/ Mount
    \/ ReadTemplatesDone
    \/ ReadVariablesDone
    \/ GetAllDataReturn
    \/ LoadDataSettle
    \/ HandleTemplateSaveBegin
    \/ HandleTemplateDeleteBegin
    \/ HandleTemplateSettle

(***************************************************************************)
(* TemplateEditor, TemplateEditor.tsx 17-106                               *)
(***************************************************************************)
Untitled == <<"U", "n", "t", "i", "t", "l", "e", "d">>

\* TemplateEditor.tsx 40-46, the body of the validation effect
validationOf(title, content, vs, now) ==
    IF trim(content) # <<>>
    THEN validateTemplate(createTemplate(IF title # <<>> THEN title ELSE Untitled,
                                         content, now, now, <<>>), vs)
    ELSE <<>>

\* TemplateEditor.tsx 27-36, the state the reset effect sets
formOf(selectedTemplate) ==
    IF selectedTemplate.isNull THEN [title |-> <<>>, content |-> <<>>]
    ELSE [title |-> selectedTemplate.value.title,
          content |-> selectedTemplate.value.content]

\* TemplateEditor.tsx 27-47: the two effects run to quiescence after a
\* handler took the editor from before to after and the variables from
\* vsBefore to vsAfter. An effect runs after a render in which one of its
\* dependencies changed: [selectedTemplate] for the reset effect,
\* [content, variables, title] for the validation effect, in this order, the
\* last setValidationErrors of a commit being the one that counts; the
\* state they set is rendered again and the validation effect runs once
\* more if the reset effect changed the title or the content
settle(before, after, vsBefore, vsAfter, now) ==
    LET reset == after.selectedTemplate # before.selectedTemplate
        validate == \/ after.content # before.content
                    \/ after.title # before.title
                    \/ vsAfter # vsBefore
        form == formOf(after.selectedTemplate)
        second ==
          [after EXCEPT
             !.title = IF reset THEN form.title ELSE @,
             !.content = IF reset THEN form.content ELSE @,
             !.validationErrors =
                IF validate THEN validationOf(after.title, after.content, vsAfter, now)
                ELSE IF reset THEN <<>> ELSE @]
        again == second.content # after.content \/ second.title # after.title
    IN  [second EXCEPT
           !.validationErrors =
              IF again THEN validationOf(second.title, second.content, vsAfter, now)
              ELSE @]

\* the editor once another handler than handleSave has run
forget(ed) == [ed EXCEPT !.saved = NoSave]

\* what is typed into the two fields
AppTitles == {<<>>, <<" ">>, <<"T">>}
AppContents == {<<>>, <<" ">>, <<"{", "{", "a", "}", "}">>}

\* TemplateEditor.tsx 218: onChange of the title field
SetTitle ==
    /\ UNCHANGED <<engineVars, storeVars, manager, clock, made, seen, clip, call, inflight>>
    /\ Ready
    /\ \E title \in AppTitles :
        /\ title # editor.title
        /\ editor' = settle(editor, [forget(editor) EXCEPT !.title = title],
                            manager.variables, manager.variables, clock)

\* TemplateEditor.tsx 230: onChange of the content field
SetContent ==
    /\ UNCHANGED <<engineVars, storeVars, manager, clock, made, seen, clip, call, inflight>>
    /\ Ready
    /\ \E content \in AppContents :
        /\ content # editor.content
        /\ editor' = settle(editor, [forget(editor) EXCEPT !.content = content],
                            manager.variables, manager.variables, clock)

\* TemplateEditor.tsx 104-106 and 303: a template of the list is clicked
HandleSelectTemplate ==
    /\ UNCHANGED <<engineVars, storeVars, manager, clock, made, seen, clip, call, inflight>>
    /\ Ready
    /\ \E i \in 1..Len(manager.templates) :
        LET picked == [isNull |-> FALSE, value |-> manager.templates[i]]
        IN  /\ picked # editor.selectedTemplate
            /\ editor' = settle(editor,
                                [forget(editor) EXCEPT !.selectedTemplate = picked],
                                manager.variables, manager.variables, clock)

\* the editor as handleNewTemplate and a successful handleSave leave it
clearedForm(ed) ==
    [ed EXCEPT !.selectedTemplate = NoEditor.selectedTemplate,
               !.title = <<>>, !.content = <<>>, !.validationErrors = <<>>]

\* TemplateEditor.tsx 97-102
HandleNewTemplate ==
    /\ UNCHANGED <<engineVars, storeVars, manager, clock, made, seen, clip, call, inflight>>
    /\ Ready
    /\ editor # clearedForm(forget(editor))
    /\ editor' = settle(editor, clearedForm(forget(editor)),
                        manager.variables, manager.variables, clock)

\* part_007 91-120: another tab is chosen, which unmounts the editor; when
\* its tab is chosen again the component is mounted anew
EditorRemount ==
    /\ UNCHANGED <<engineVars, storeVars, manager, clock, made, seen, clip, call, inflight>>
    /\ Ready
    /\ editor # NoEditor
    /\ editor' = NoEditor

\* TemplateEditor.tsx 50 and 59: the two guards of handleSave
saveBlocked(ed) ==
    \/ trim(ed.title) = <<>>
    \/ trim(ed.content) = <<>>
    \/ Len(ed.validationErrors) > 0

\* TemplateEditor.tsx 70-72
templateToSave(ed, now, idNow, rnd) ==
    IF ed.selectedTemplate.isNull
    THEN createTemplate(trim(ed.title), trim(ed.content), now, idNow, rnd)
    ELSE [ed.selectedTemplate.value EXCEPT !.title = trim(ed.title),
                                           !.content = trim(ed.content),
                                           !.updatedAt = Date(now)]

\* TemplateEditor.tsx 49-95 with part_007 32-44 and storage.ts 35-44 (the
\* clock is read once here; CreateTemplate has it move between the two
\* readings of createTemplate): handleSave returns at a guard, or hands the template to onTemplateSave,
\* i.e. handleTemplateSave, which saves the updated list and, the save
\* done, puts it into the state; the form is cleared after a save and kept
\* after a failed one
HandleSave ==
    /\ UNCHANGED <<engineVars, op, result, clock, made, seen, clip, call, inflight>>
    /\ Ready
    /\ \E rnd \in Randoms, setOk \in BOOLEAN :
        LET ran == [NoSave EXCEPT !.ran = TRUE, !.title = editor.title,
                                  !.content = editor.content,
                                  !.variables = manager.variables]
            t == templateToSave(editor, clock, clock, rnd)
            updatedTemplates == upsert(manager.templates, t)
            called == [ran EXCEPT !.called = TRUE, !.template = t,
                                  !.written = setOk]
        IN  IF saveBlocked(editor)
            THEN /\ rnd = <<>> /\ setOk
                 /\ editor' = [editor EXCEPT !.saved = ran]
                 /\ UNCHANGED <<store, manager>>
            ELSE /\ Len(updatedTemplates) <= MaxRecs
                 /\ editor.selectedTemplate.isNull \/ rnd = <<>>
                 /\ store' = IF saveTemplates(setOk).status = "ok"
                             THEN [store EXCEPT ![KeyT] = Present(updatedTemplates)]
                             ELSE store
                 /\ manager' = IF saveTemplates(setOk).status = "ok"
                               THEN [manager EXCEPT !.templates = updatedTemplates]
                               ELSE manager
                 /\ editor' =
                      IF saveTemplates(setOk).status = "ok"
                      THEN settle(editor, [clearedForm(editor) EXCEPT !.saved = called],
                                  manager.variables, manager.variables, clock)
                      ELSE [editor EXCEPT !.saved = called]

(***************************************************************************)
(* TemplateList, TemplateList.tsx 40-54, and part_007 46-55                *)
(***************************************************************************)
\* a template of the list is deleted: the filtered list is saved and then
\* put into the state (the editor is not mounted while the list is shown)
HandleDeleteTemplate ==
    /\ UNCHANGED <<engineVars, op, result, editor, clock, made, seen, clip, call, inflight>>
    /\ Ready
    /\ editor = NoEditor
    /\ \E i \in 1..Len(manager.templates), setOk \in BOOLEAN :
        LET updatedTemplates == removeId(manager.templates, manager.templates[i].id)
        IN  /\ store' = IF saveTemplates(setOk).status = "ok"
                        THEN [store EXCEPT ![KeyT] = Present(updatedTemplates)]
                        ELSE store
            /\ manager' = IF saveTemplates(setOk).status = "ok"
                          THEN [manager EXCEPT !.templates = updatedTemplates]
                          ELSE manager

(***************************************************************************)
(* Settings, Settings.tsx 18-125, with part_007 57-80                      *)
(***************************************************************************)
UpperCase ==
    <<"A", "B", "C", "D", "E", "F", "G", "H", "I", "J", "K", "L", "M", "N",
      "O", "P", "Q", "R", "S", "T", "U", "V", "W", "X", "Y", "Z">>
LowerCase ==
    <<"a", "b", "c", "d", "e", "f", "g", "h", "i", "j", "k", "l", "m", "n",
      "o", "p", "q", "r", "s", "t", "u", "v", "w", "x", "y", "z">>

\* String.prototype.toLowerCase
toLowerCase(s) ==
    [i \in 1..Len(s) |->
        IF \E k \in 1..Len(UpperCase) : UpperCase[k] = s[i]
        THEN LowerCase[CHOOSE k \in 1..Len(UpperCase) : UpperCase[k] = s[i]]
        ELSE s[i]]

\* what is typed into the form of the dialog
SettingsNames == {<<" ">>, <<"a">>, <<"A">>}
SettingsValues == {<<"X">>}

\* Settings.tsx 35 and 45-48: the form is incomplete, or another variable
\* has the name, letter case aside
variableBlocked(vs, editing, name, value) ==
    \/ trim(name) = <<>>
    \/ trim(value) = <<>>
    \/ \E i \in 1..Len(vs) :
          /\ toLowerCase(vs[i].name) = toLowerCase(trim(name))
          /\ (editing.isNull \/ vs[i].id # editing.value.id)

\* Settings.tsx 61-69; an empty description is stored as undefined
variableToSave(editing, name, value, now, idNow, rnd) ==
    IF editing.isNull
    THEN createVariable(trim(name), trim(value), NoDescription, now, idNow, rnd)
    ELSE [editing.value EXCEPT !.name = trim(name), !.value = trim(value),
                               !.description = NoDescription,
                               !.updatedAt = Date(now)]

\* Settings.tsx 34-89 with part_007 57-69 (the form is filled in and saved
\* in one step, the clock read once; the editor is not mounted while the
\* settings are shown): the variable of the form, new or
\* the one being edited, is saved; the editor validates again when the
\* variables it is given change
HandleVariableSave ==
    /\ UNCHANGED <<engineVars, op, result, editor, clock, made, seen, clip, call, inflight>>
    /\ Ready
    /\ editor = NoEditor
    /\ \E name \in SettingsNames, value \in SettingsValues,
          e \in 0..Len(manager.variables), rnd \in Randoms, setOk \in BOOLEAN :
        LET editing == IF e = 0 THEN [isNull |-> TRUE, value |-> NoTemplate]
                       ELSE [isNull |-> FALSE, value |-> manager.variables[e]]
            v == variableToSave(editing, name, value, clock, clock, rnd)
            updatedVariables == upsert(manager.variables, v)
        IN  /\ ~variableBlocked(manager.variables, editing, name, value)
            /\ Len(updatedVariables) <= MaxRecs
            /\ editing.isNull \/ rnd = <<>>
            /\ store' = IF saveVariables(setOk).status = "ok"
                        THEN [store EXCEPT ![KeyV] = Present(updatedVariables)]
                        ELSE store
            /\ manager' = IF saveVariables(setOk).status = "ok"
                          THEN [manager EXCEPT !.variables = updatedVariables]
                          ELSE manager

\* Settings.tsx 99-115 with part_007 71-80
HandleVariableDelete ==
    /\ UNCHANGED <<engineVars, op, result, editor, clock, made, seen, clip, call, inflight>>
    /\ Ready
    /\ editor = NoEditor
    /\ \E i \in 1..Len(manager.variables), setOk \in BOOLEAN :
        LET updatedVariables == removeId(manager.variables, manager.variables[i].id)
        IN  /\ store' = IF saveVariables(setOk).status = "ok"
                        THEN [store EXCEPT ![KeyV] = Present(updatedVariables)]
                        ELSE store
            /\ manager' = IF saveVariables(setOk).status = "ok"
                          THEN [manager EXCEPT !.variables = updatedVariables]
                          ELSE manager

(***************************************************************************)
(* Settings on its own: every press of Save, the refused ones too         *)
(***************************************************************************)
\* what the store holds when the app is opened: nothing, or two variables
\* of different names that an import left there under one id
SettingsStores ==
    { EmptyStore,
      [k \in {KeyT, KeyV} |->
         IF k = KeyT THEN Absent
         ELSE Present(<<createVariable(<<"a">>, <<"X">>, NoDescription, 0, 0, <<>>),
                        createVariable(<<"b">>, <<"X">>, NoDescription, 0, 0, <<>>)>>)] }

SettingsFormValues == {<<" ">>, <<"X">>}

\* Settings.tsx 34-89: handleSave with the form holding name and value,
\* for a new variable or for the e-th of the list (handleEdit, 91-97); it
\* returns at a guard or calls onVariableSave, part_007 57-69
SettingsHandleSave ==
    /\ UNCHANGED <<engineVars, op, result, editor, clock, made, seen, clip, inflight>>
    /\ Ready
    /\ \E name \in SettingsNames, value \in SettingsFormValues,
          e \in 0..Len(manager.variables), rnd \in Randoms, setOk \in BOOLEAN :
        LET editing == IF e = 0 THEN [isNull |-> TRUE, value |-> NoTemplate]
                       ELSE [isNull |-> FALSE, value |-> manager.variables[e]]
            form == [name |-> name, value |-> value, editing |-> editing]
            v == variableToSave(editing, name, value, clock, clock, rnd)
        IN  IF variableBlocked(manager.variables, editing, name, value)
            THEN /\ rnd = <<>> /\ setOk
                 /\ call' = [NoCall EXCEPT !.fn = "Settings.handleSave",
                                           !.arg = form,
                                           !.variables = manager.variables,
                                           !.pre = store]
                 /\ UNCHANGED <<store, manager>>
            ELSE /\ Len(upsert(manager.variables, v)) <= MaxRecs
                 /\ editing.isNull \/ rnd = <<>>
                 /\ Called("Settings.handleSave", form, setOk,
                           handleVariableSave(manager, store, v, setOk))

\* Settings.tsx 99-115: handleDelete of the i-th variable, confirmed
SettingsHandleDelete ==
    /\ UNCHANGED <<engineVars, op, result, editor, clock, made, seen, clip, inflight>>
    /\ Ready
    /\ \E i \in 1..Len(manager.variables), setOk \in BOOLEAN :
        Called("Settings.handleDelete", manager.variables[i], setOk,
               handleVariableDelete(manager, store, manager.variables[i].id, setOk))

SettingsNext ==
    \/ Mount
    \/ ReadTemplatesDone
    \/ ReadVariablesDone
    \/ GetAllDataReturn
    \/ LoadDataSettle
    \/ SettingsHandleSave
    \/ SettingsHandleDelete

(***************************************************************************)
(* ImportExportDialog, TemplateEditor.tsx 338-391                          *)
(***************************************************************************)
\* records of the bundles pasted into the dialog: two templates with one
\* id, and a template created after it was last updated
AppRawTemplate(id, content, createdAt, updatedAt) ==
    [id |-> id, title |-> <<"T">>, content |-> content,
     createdAt |-> createdAt, updatedAt |-> updatedAt]

AppContent == <<"{", "{", "a", "}", "}">>

AppImportTexts ==
    { Garbage,
      TextOf(JsonObject(
          ArrayOf(<<AppRawTemplate(<<"t", "1">>, AppContent, Iso(0), Iso(0)),
                    AppRawTemplate(<<"t", "1">>, AppContent, Iso(0), Iso(0))>>),
          ArrayOf(<<>>), "1.0.0", Iso(0))),
      TextOf(JsonObject(
          ArrayOf(<<AppRawTemplate(<<"t", "2">>, AppContent, Iso(1), Iso(0))>>),
          ArrayOf(<<>>), "1.0.0", Iso(0))) }

\* TemplateEditor.tsx 360-390 with storage.ts 134-161: the dialog is part
\* of the list of templates (TemplateList.tsx 60-73 renders none without a
\* template); after an import the page is loaded anew, a failed one is
\* reported
HandleImport ==
    /\ UNCHANGED <<engineVars, op, result, editor, clock, made, seen, clip, call, inflight>>
    /\ Ready
    /\ editor = NoEditor
    /\ Len(manager.templates) > 0
    /\ \E text \in AppImportTexts, tOk \in BOOLEAN, vOk \in BOOLEAN :
        LET plan == importPlan(text)
            done == promiseAll(saveTemplates(tOk).status, saveVariables(vOk).status)
        IN  IF ~plan.ok
            THEN /\ tOk /\ vOk
                 /\ UNCHANGED <<store, manager>>
            ELSE /\ store' = [store EXCEPT
                                ![KeyT] = IF tOk THEN Present(plan.templates) ELSE @,
                                ![KeyV] = IF vOk THEN Present(plan.variables) ELSE @]
                 /\ manager' = IF done = "ok" THEN NoManager ELSE manager

AppNext ==
    \/ Mount
    \/ ReadTemplatesDone
    \/ ReadVariablesDone
    \/ GetAllDataReturn
    \/ LoadDataSettle
    \/ SetTitle
    \/ SetContent
    \/ HandleSelectTemplate
    \/ HandleNewTemplate
    \/ EditorRemount
    \/ HandleSave
    \/ HandleDeleteTemplate
    \/ HandleVariableSave
    \/ HandleVariableDelete
    \/ HandleImport
    \/ Tick

(***************************************************************************)
(* The editor and the settings without import: templates are saved        *)
(* through TemplateEditor, variables through Settings                      *)
(***************************************************************************)
IntegrityNext ==
    \/ Mount
    \/ ReadTemplatesDone
    \/ ReadVariablesDone
    \/ GetAllDataReturn
    \/ LoadDataSettle
    \/ SetTitle
    \/ SetContent
    \/ HandleSelectTemplate
    \/ HandleNewTemplate
    \/ HandleSave
    \/ HandleVariableSave
    \/ HandleVariableDelete

(***************************************************************************)
(* Specifications                                                          *)
(***************************************************************************)
\* the engine functions applied to every bounded input, the store untouched
EngineInit == EngineInputs /\ StoreInit /\ AppIdle

EngineSpec == EngineInit /\ [][EngineNext]_vars

\* processTemplate applied to contents and to values that hold placeholders
RescanInit == RescanInputs /\ StoreInit /\ AppIdle
RescanSpec == RescanInit /\ [][RescanNext]_vars

EngineIdle ==
    /\ template = EngineTemplate(<<>>)
    /\ variables = <<>>
    /\ engineOut = NoEngineOut

Init == EngineIdle /\ StoreInit /\ AppIdle

\* the storage service over the store
Spec == Init /\ [][Next]_vars

\* the record constructors called with every bounded argument
CreateSpec == Init /\ [][CreateNext]_vars

\* the application: the page is loaded and its handlers run one at a time
AppSpec == Init /\ [][AppNext]_vars
RaceSpec == Init /\ [][RaceNext]_vars
ClipSpec == Init /\ [][ClipNext]_vars

ManagerInit ==
    /\ EngineIdle
    /\ AppIdle
    /\ store \in ManagerStores
    /\ op = IdleOp
    /\ result = NoResult

ManagerSpec == ManagerInit /\ [][ManagerNext]_vars

OverlapInit ==
    /\ EngineIdle
    /\ AppIdle
    /\ store \in OverlapStores
    /\ op = IdleOp
    /\ result = NoResult

OverlapSpec == OverlapInit /\ [][OverlapNext]_vars

IntegritySpec == Init /\ [][IntegrityNext]_vars

SettingsInit ==
    /\ EngineIdle
    /\ AppIdle
    /\ store \in SettingsStores
    /\ op = IdleOp
    /\ result = NoResult

SettingsSpec == SettingsInit /\ [][SettingsNext]_vars

\* TemplateManager is mounted over a store that holds anything; every get
\* the store was asked for is answered, and a promise that is settled has
\* its continuation run
MountStores ==
    { [k \in {KeyT, KeyV} |-> IF k = KeyT THEN t ELSE v] :
        t \in {Absent} \cup {Present(l) : l \in TemplateLists},
        v \in {Absent} \cup {Present(l) : l \in VariableLists} }

MountInit ==
    /\ EngineIdle
    /\ AppIdle
    /\ store \in MountStores
    /\ op = IdleOp
    /\ result = NoResult

MountNext ==
    \/ Mount
    \/ ReadTemplatesDone
    \/ ReadVariablesDone
    \/ GetAllDataReturn
    \/ LoadDataSettle

MountSpec ==
    /\ MountInit
    /\ [][MountNext]_vars
    /\ WF_vars(ReadTemplatesDone)
    /\ WF_vars(ReadVariablesDone)
    /\ WF_vars(GetAllDataReturn)
    /\ WF_vars(LoadDataSettle)

(***************************************************************************)
(* Reference notions the properties are stated with                        *)
(***************************************************************************)
Range(q) == {q[i] : i \in DOMAIN q}
MinOf(S) == CHOOSE x \in S : \A y \in S : x <= y
MaxOf(S) == CHOOSE x \in S : \A y \in S : x >= y

\* s without its leading and trailing whitespace
RefTrim(s) ==
    LET solid == {i \in 1..Len(s) : s[i] # " "}
    IN  IF solid = {} THEN <<>> ELSE SubSeq(s, MinOf(solid), MaxOf(solid))

\* a marker at position i: "{{", one or more characters none of which is
\* "}", then "}}"; the position of its last character, 0 when there is none
RefMarkerEnd(s, i) ==
    IF i + 1 <= Len(s) /\ s[i] = "{" /\ s[i + 1] = "{"
    THEN LET closing == {k \in (i + 2)..Len(s) : s[k] = "}"}
         IN  IF closing = {} THEN 0
             ELSE LET e == MinOf(closing)
                  IN  IF e >= i + 3 /\ e + 1 <= Len(s) /\ s[e + 1] = "}"
                      THEN e + 1 ELSE 0
    ELSE 0

\* the markers found scanning left to right from position i, the scan
\* resuming right after each marker
RECURSIVE RefScan(_, _)
RefScan(s, i) ==
    IF i > Len(s) THEN <<>>
    ELSE IF RefMarkerEnd(s, i) # 0
         THEN <<[from |-> i, to |-> RefMarkerEnd(s, i)]>>
              \o RefScan(s, RefMarkerEnd(s, i) + 1)
         ELSE RefScan(s, i + 1)

RefMarkers(s) == RefScan(s, 1)
RefText(s, m) == SubSeq(s, m.from, m.to)
RefInner(s, m) == SubSeq(s, m.from + 2, m.to - 2)
\* the trimmed name of every marker occurrence, in order of occurrence
RefNames(s) ==
    LET ms == RefMarkers(s) IN [i \in 1..Len(ms) |-> RefTrim(RefInner(s, ms[i]))]
NonEmptyNames(names) == SelectSeq(names, LAMBDA n : n # <<>>)

\* names reduced to the first occurrence of each
RECURSIVE RefDistinctFrom(_, _)
RefDistinctFrom(names, i) ==
    IF i > Len(names) THEN <<>>
    ELSE (IF \E j \in 1..(i - 1) : names[j] = names[i] THEN <<>> ELSE <<names[i]>>)
         \o RefDistinctFrom(names, i + 1)
RefDistinct(names) == RefDistinctFrom(names, 1)

\* msg contains n as a substring
Contains(msg, n) ==
    \E k \in 0..(Len(msg) - Len(n)) : SubSeq(msg, k + 1, k + Len(n)) = n

HasVariable(vs, n) == \E j \in 1..Len(vs) : vs[j].name = n
\* the value of the last variable of the list named n
LastValue(vs, n) == vs[MaxOf({j \in 1..Len(vs) : vs[j].name = n})].value

\* s with its markers ms replaced, in order, by the texts outs
RECURSIVE RefRender(_, _, _, _)
RefRender(s, ms, outs, pos) ==
    IF ms = <<>> THEN SubSeq(s, pos, Len(s))
    ELSE SubSeq(s, pos, Head(ms).from - 1) \o Head(outs)
         \o RefRender(s, Tail(ms), Tail(outs), Head(ms).to + 1)

\* the callback was invoked once per marker, on the marker's text, and the
\* output is the content with each marker replaced by what it returned
RendersCalls ==
    LET c == template.content
        ms == RefMarkers(c)
        calls == engineOut.calls
    IN  /\ Len(calls) = Len(ms)
        /\ \A i \in 1..Len(ms) : calls[i].text = RefText(c, ms[i])
        /\ engineOut.value = RefRender(c, ms, [i \in 1..Len(calls) |-> calls[i].out], 1)

(***************************************************************************)
(* C1                                                                      *)
(***************************************************************************)
\* v lists each name of names once, ordered by first occurrence
ListsOnceInOrder(v, names) ==
    /\ \A i \in 1..Len(v) : \E j \in 1..Len(names) : names[j] = v[i]
    /\ \A j \in 1..Len(names) : \E i \in 1..Len(v) : v[i] = names[j]
    /\ \A i, k \in 1..Len(v) : i # k => v[i] # v[k]
    /\ \A i, k \in 1..Len(v) :
         i < k => MinOf({j \in 1..Len(names) : names[j] = v[i]})
                    < MinOf({j \in 1..Len(names) : names[j] = v[k]})

\* C1 as stated: extractVariables returns the trimmed inner texts of all the
\* markers, each once, in first-occurrence order
C1_AsStated ==
    engineOut.fn = "extractVariables"
        => ListsOnceInOrder(engineOut.value, RefNames(template.content))

\* C1 (amended): extractVariables returns the non-empty trimmed inner texts
\* of the markers found scanning left to right, each distinct name exactly
\* once, ordered by first occurrence; no marker, no name
C1_ExtractFirstOccurrences ==
    engineOut.fn = "extractVariables"
        => /\ ListsOnceInOrder(engineOut.value,
                               NonEmptyNames(RefNames(template.content)))
           /\ RefMarkers(template.content) = <<>> => engineOut.value = <<>>

\* three markers, the third repeating the first name, two names returned
C1_Witness ==
    /\ engineOut.fn = "extractVariables"
    /\ Len(RefNames(template.content)) = 3
    /\ RefNames(template.content)[1] = RefNames(template.content)[3]
    /\ RefNames(template.content)[1] # RefNames(template.content)[2]
    /\ Len(engineOut.value) = 2

(***************************************************************************)
(* C2                                                                      *)
(***************************************************************************)
\* C2 as stated: every occurrence whose trimmed name is the name of a
\* variable with a non-empty value is replaced by that variable's value
C2_AsStated ==
    engineOut.fn = "processTemplate"
        => /\ RendersCalls
           /\ \A i \in 1..Len(engineOut.calls) :
                LET n == RefNames(template.content)[i]
                    named == {j \in 1..Len(variables) :
                                variables[j].name = n /\ variables[j].value # <<>>}
                IN  named # {}
                      => \E j \in named : engineOut.calls[i].out = variables[j].value

\* C2 (amended): every occurrence (repeats and padded names included) whose
\* trimmed name is the name of a variable is replaced by the value of the
\* last variable of the list with that name, when that value is non-empty
C2_ReplacesEveryOccurrence ==
    engineOut.fn = "processTemplate"
        => /\ RendersCalls
           /\ \A i \in 1..Len(engineOut.calls) :
                LET n == RefNames(template.content)[i]
                IN  (HasVariable(variables, n) /\ LastValue(variables, n) # <<>>)
                      => engineOut.calls[i].out = LastValue(variables, n)

\* three occurrences all replaced, the third repeating the first name, one
\* of them padded inside its braces
C2_Witness ==
    /\ engineOut.fn = "processTemplate"
    /\ Len(engineOut.calls) = 3
    /\ \A i \in 1..3 : engineOut.calls[i].out # engineOut.calls[i].text
    /\ engineOut.calls[1].name = engineOut.calls[3].name
    /\ \E i \in 1..3 :
         RefInner(template.content, RefMarkers(template.content)[i])
            # engineOut.calls[i].name

(***************************************************************************)
(* C3                                                                      *)
(***************************************************************************)
\* C3 as stated: an occurrence is left as written when its trimmed name is
\* the name of no variable or the variable's value is the empty string
C3_AsStated ==
    engineOut.fn = "processTemplate"
        => /\ RendersCalls
           /\ \A i \in 1..Len(engineOut.calls) :
                LET n == RefNames(template.content)[i]
                IN  (\/ ~HasVariable(variables, n)
                     \/ \E j \in 1..Len(variables) :
                          variables[j].name = n /\ variables[j].value = <<>>)
                      => engineOut.calls[i].out = engineOut.calls[i].text

\* C3 (amended): an occurrence is left exactly as written, braces and inner
\* whitespace included, when its trimmed name is the name of no variable or
\* the last variable of the list with that name has the empty string as
\* value; the other occurrences of the content are still substituted
C3_KeepsUnresolved ==
    engineOut.fn = "processTemplate"
        => /\ RendersCalls
           /\ \A i \in 1..Len(engineOut.calls) :
                LET n == RefNames(template.content)[i]
                IN  (~HasVariable(variables, n) \/ LastValue(variables, n) = <<>>)
                      => engineOut.calls[i].out
                           = RefText(template.content, RefMarkers(template.content)[i])

\* one occurrence of an unknown name and one of a name with an empty value
\* kept, next to one that is substituted
C3_Witness ==
    /\ engineOut.fn = "processTemplate"
    /\ \E i, j \in 1..Len(engineOut.calls) :
         /\ ~HasVariable(variables, engineOut.calls[i].name)
         /\ engineOut.calls[i].out = engineOut.calls[i].text
         /\ engineOut.calls[j].out # engineOut.calls[j].text
    /\ \E i \in 1..Len(engineOut.calls) :
         /\ HasVariable(variables, engineOut.calls[i].name)
         /\ LastValue(variables, engineOut.calls[i].name) = <<>>

(***************************************************************************)
(* C4                                                                      *)
(***************************************************************************)
\* one error per name of missing, in order, each on the field 'content'
\* with the name in its message
ReportsInOrder(errors, missing) ==
    /\ Len(errors) = Len(missing)
    /\ \A i \in 1..Len(errors) :
         /\ errors[i].field = "content"
         /\ Contains(errors[i].message, <<"'">> \o missing[i] \o <<"'">>)

Undefined(names) ==
    SelectSeq(RefDistinct(names), LAMBDA n : ~HasVariable(variables, n))

\* C4 as stated: one error for each distinct placeholder name, the trimmed
\* inner text of a marker, that no variable has
C4_AsStated ==
    engineOut.fn = "validateTemplate"
        => ReportsInOrder(engineOut.value, Undefined(RefNames(template.content)))

\* C4 (amended): one error for each distinct non-empty placeholder name
\* that no available variable has, in first-occurrence order, field
\* 'content', the name in the message; none for a defined name
C4_OneErrorPerMissingName ==
    engineOut.fn = "validateTemplate"
        => ReportsInOrder(engineOut.value,
                          Undefined(NonEmptyNames(RefNames(template.content))))

\* three occurrences, one name missing twice and one defined: one error
C4_Witness ==
    /\ engineOut.fn = "validateTemplate"
    /\ Len(RefNames(template.content)) = 3
    /\ RefNames(template.content)[1] = RefNames(template.content)[3]
    /\ ~HasVariable(variables, RefNames(template.content)[1])
    /\ HasVariable(variables, RefNames(template.content)[2])
    /\ Len(engineOut.value) = 1

(***************************************************************************)
(* C5                                                                      *)
(***************************************************************************)
LookedUp == {engineOut.calls[i].name : i \in 1..Len(engineOut.calls)}
Replaced ==
    {i \in 1..Len(engineOut.calls) : engineOut.calls[i].out # engineOut.calls[i].text}

\* C5 as stated: the names processTemplate looks up are the names
\* extractVariables returns, and no occurrence of another name is replaced
C5_AsStated ==
    engineOut.fn = "processTemplate"
        => /\ LookedUp = Range(extractVariables(template.content))
           /\ \A i \in Replaced :
                engineOut.calls[i].name \in Range(extractVariables(template.content))

\* C5 (amended): the non-empty names processTemplate looks up are exactly
\* the names extractVariables returns; the empty name of a whitespace-only
\* marker is looked up, and may be replaced, without being returned
C5_SameNonEmptyNames ==
    engineOut.fn = "processTemplate"
        => /\ LookedUp \ {<<>>} = Range(extractVariables(template.content))
           /\ \A i \in Replaced :
                engineOut.calls[i].name
                    \in Range(extractVariables(template.content)) \cup {<<>>}

\* a whitespace-only marker replaced by the value of the variable with the
\* empty name, next to a padded marker of a defined name
C5_Witness ==
    /\ engineOut.fn = "processTemplate"
    /\ \E i \in Replaced : engineOut.calls[i].name = <<>>
    /\ \E i \in Replaced :
         /\ engineOut.calls[i].name # <<>>
         /\ RefInner(template.content, RefMarkers(template.content)[i])
              # engineOut.calls[i].name

(***************************************************************************)
(* C6                                                                      *)
(***************************************************************************)
EmptyNameMessage == (MsgPrefix \o MsgSuffix)

\* C6 as stated: the empty name of a whitespace-only marker is returned by
\* extractVariables, and reported by validateTemplate when no variable has it
C6_AsStated ==
    (\E i \in 1..Len(RefNames(template.content)) : RefNames(template.content)[i] = <<>>)
        => /\ engineOut.fn = "extractVariables" => <<>> \in Range(engineOut.value)
           /\ (engineOut.fn = "validateTemplate" /\ ~HasVariable(variables, <<>>))
                => \E i \in 1..Len(engineOut.value) :
                      engineOut.value[i].message = EmptyNameMessage

\* C6 (amended): a marker whose inner text is whitespace only is skipped:
\* the empty string is never in the result of extractVariables, and
\* validateTemplate never reports it
C6_EmptyNameSkipped ==
    /\ engineOut.fn = "extractVariables" => <<>> \notin Range(engineOut.value)
    /\ engineOut.fn = "validateTemplate"
         => \A i \in 1..Len(engineOut.value) :
               engineOut.value[i].message # EmptyNameMessage

\* a whitespace-only marker validated while no variable has the empty name
C6_Witness ==
    /\ engineOut.fn = "validateTemplate"
    /\ <<>> \in Range(RefNames(template.content))
    /\ ~HasVariable(variables, <<>>)
    /\ Len(RefNames(template.content)) = 2
    /\ Len(engineOut.value) = 1

(***************************************************************************)
(* C7                                                                      *)
(***************************************************************************)
\* 'name' and 'order_{{type'
NestedExampleNames ==
    << <<"n", "a", "m", "e">>,
       <<"o", "r", "d", "e", "r", "_", "{", "{", "t", "y", "p", "e">> >>

\* C7: the matches of every engine call are the markers "{{", one or more
\* non-"}" characters, the first "}}", scanned left to right without
\* nesting, an inner "{{" being part of the name; the nested example
\* yields exactly 'name' and 'order_{{type'
C7_NonRecursiveMatching ==
    /\ engineOut.fn # "none"
         => LET c == template.content
                ms == RefMarkers(c)
            IN  /\ Len(engineOut.matches) = Len(ms)
                /\ \A i \in 1..Len(ms) :
                     /\ engineOut.matches[i].index = ms[i].from
                     /\ engineOut.matches[i].last = ms[i].to
                     /\ engineOut.matches[i].group = RefInner(c, ms[i])
                     /\ engineOut.matches[i].text = RefText(c, ms[i])
    /\ (engineOut.fn = "extractVariables" /\ template.content = NestedExample)
         => engineOut.value = NestedExampleNames

\* the nested example extracted
C7_Witness ==
    /\ engineOut.fn = "extractVariables"
    /\ template.content = NestedExample
    /\ Len(engineOut.matches) = 2
    /\ \E k \in 1..Len(engineOut.matches[2].group) :
         engineOut.matches[2].group[k] = "{"

(***************************************************************************)
(* C8                                                                      *)
(***************************************************************************)
\* a text that is no JSON, or whose value lacks templates or variables
RefInvalidBundle(text) ==
    \/ ~text.parses
    \/ text.value.templates.kind = "missing"
    \/ text.value.variables.kind = "missing"

\* C8: importData of a text that is no JSON, or of an object without the
\* templates field or without the variables field, fails, issues no store
\* write, and leaves both stored collections as they were
C8_InvalidImportWritesNothing ==
    (result.op = "importData" /\ RefInvalidBundle(result.input))
        => /\ result.status = "failed"
           /\ result.writes = 0
           /\ store = result.pre

\* a bundle with templates but no variables field refused, the store
\* holding records
C8_Witness ==
    /\ result.op = "importData"
    /\ result.input.parses
    /\ result.input.value.templates.kind = "array"
    /\ result.input.value.templates.items # <<>>
    /\ result.input.value.variables.kind = "missing"
    /\ store[KeyT].val # <<>>
    /\ store[KeyV].val # <<>>

(***************************************************************************)
(* C9                                                                      *)
(***************************************************************************)
\* the instant a stored timestamp denotes, -1 when it denotes none
RefInstant(x) == IF x.k \in {"date", "iso"} THEN x.t ELSE -1

\* the same records in the same order: ids, field values, timestamp instants
SameRecords(a, b) ==
    /\ Len(a) = Len(b)
    /\ \A i \in 1..Len(a) :
         /\ [a[i] EXCEPT !.createdAt = JsonNull, !.updatedAt = JsonNull]
              = [b[i] EXCEPT !.createdAt = JsonNull, !.updatedAt = JsonNull]
         /\ RefInstant(a[i].createdAt) = RefInstant(b[i].createdAt)
         /\ RefInstant(a[i].updatedAt) = RefInstant(b[i].updatedAt)

\* importData(exportData()) has returned, no store call of either failed
RoundTripDone ==
    /\ result.op = "importData"
    /\ result.fromExport
    /\ result.exportClean
    /\ result.status = "ok"

\* C9: after importData(exportData()) without a store failure both stored
\* collections equal their pre-export state, record for record
C9_RoundTrip ==
    RoundTripDone
        => /\ SameRecords(store[KeyT].val, result.pre[KeyT].val)
           /\ SameRecords(store[KeyV].val, result.pre[KeyV].val)

(***************************************************************************)
(* C10                                                                     *)
(***************************************************************************)
\* the read of key degraded: the key was absent or its get failed
Degraded(key) == key \in result.getFailed \/ ~result.pre[key].present

\* C10: getTemplates, getVariables and getAllData never fail; a collection
\* whose key is absent or whose get failed is returned as the empty sequence
C10_ReadsDegrade ==
    /\ result.op \in {"getTemplates", "getVariables", "getAllData"}
         => result.status = "ok"
    /\ result.op \in {"getTemplates", "getAllData"}
         => (Degraded(KeyT) => result.value.templates = <<>>)
    /\ result.op \in {"getVariables", "getAllData"}
         => (Degraded(KeyV) => result.value.variables = <<>>)

\* getAllData with the get of the templates failed over a store that holds
\* templates and variables: no templates, the variables as stored
C10_Witness ==
    /\ result.op = "getAllData"
    /\ result.getFailed = {KeyT}
    /\ result.pre[KeyT].val # <<>>
    /\ result.value.templates = <<>>
    /\ result.value.variables # <<>>

(***************************************************************************)
(* C11                                                                     *)
(***************************************************************************)
\* the outcome of a save of list under key: on success the store is the
\* store before the call with key replaced by list, on a failed set the
\* call fails with the store's error and nothing is written
SaveOutcome(key, list) ==
    IF result.status = "ok"
    THEN store = [result.pre EXCEPT ![key] = Present(list)]
    ELSE /\ result.status = "failed"
         /\ result.error = StoreError
         /\ store = result.pre

\* C11: saveTemplates and saveVariables write the given sequence as the
\* full value of their own key and leave the other key alone; a failed set
\* makes the call fail with the store's error
C11_SaveReplacesOwnKey ==
    /\ result.op = "saveTemplates" => SaveOutcome(KeyT, result.value.templates)
    /\ result.op = "saveVariables" => SaveOutcome(KeyV, result.value.variables)

\* a saveTemplates of two records that replaced another stored list while
\* variables were stored
C11_Witness ==
    /\ result.op = "saveTemplates"
    /\ result.status = "ok"
    /\ Len(result.value.templates) = 2
    /\ result.pre[KeyT].present
    /\ result.pre[KeyT].val # result.value.templates
    /\ store[KeyV].val # <<>>

(***************************************************************************)
(* C12                                                                     *)
(***************************************************************************)
\* a text that is the JSON of an object whose templates and variables are
\* arrays
RefValidBundle(text) ==
    /\ text.parses
    /\ text.value.isObject
    /\ text.value.templates.kind = "array"
    /\ text.value.variables.kind = "array"

\* the records of a bundle's array with their timestamps made Dates
RefImported(field) ==
    [i \in 1..Len(field.items) |->
        [field.items[i] EXCEPT !.createdAt = newDate(@), !.updatedAt = newDate(@)]]

\* C12: an importData that fails, be it on a text that is no JSON, on a
\* bundle without its two arrays, or on a failed set, reports the one
\* import error; an importData whose two set calls both succeeded succeeds
\* and reports no error
C12_UniformImportFailure ==
    result.op = "importData"
        => /\ result.status \in {"ok", "failed"}
           /\ result.status = "failed" => result.error = ImportError
           /\ (~RefValidBundle(result.input) \/ result.tWrite = "failed"
                 \/ result.vWrite = "failed")
                => (result.status = "failed" /\ result.error = ImportError)
           /\ (result.tWrite = "ok" /\ result.vWrite = "ok")
                => (result.status = "ok" /\ result.error = "none")

\* an import failed by the set of the variables alone, the templates written
C12_Witness ==
    /\ result.op = "importData"
    /\ result.status = "failed"
    /\ result.error = ImportError
    /\ result.tWrite = "ok"
    /\ result.vWrite = "failed"
    /\ result.input.value.templates.items # <<>>

(***************************************************************************)
(* C13                                                                     *)
(***************************************************************************)
\* C13: an importData of a bundle whose templates and variables are arrays
\* issues both set calls at once, so that each comes back whatever becomes
\* of the other; the call fails as soon as one set fails and succeeds only
\* when both succeeded
C13_BothWritesAttempted ==
    /\ op.name = "importData"
         => /\ op.tState \in {"pending", "ok", "failed"}
            /\ op.vState \in {"pending", "ok", "failed"}
    /\ (result.op = "importData" /\ RefValidBundle(result.input))
         => /\ result.writes = 2
            /\ result.tWrite # "none" /\ result.vWrite # "none"
            /\ result.status = "ok"
                 <=> (result.tWrite = "ok" /\ result.vWrite = "ok")
            /\ result.status = "failed"
                 <=> (result.tWrite = "failed" \/ result.vWrite = "failed")
            /\ result.tWrite = "ok"
                 => store[KeyT] = Present(RefImported(result.input.value.templates))
            /\ result.vWrite = "ok"
                 => store[KeyV] = Present(RefImported(result.input.value.variables))

\* the set of the templates failed and the set of the variables, issued all
\* the same, wrote the bundle's variables
C13_Witness ==
    /\ result.op = "importData"
    /\ result.status = "failed"
    /\ result.tWrite = "failed"
    /\ result.vWrite = "ok"
    /\ RefImported(result.input.value.variables) # <<>>
    /\ store[KeyV] = Present(RefImported(result.input.value.variables))
    /\ store[KeyV] # result.pre[KeyV]

(***************************************************************************)
(* C14                                                                     *)
(***************************************************************************)
\* what a load of key returned at the time of the call: nothing when the
\* key was absent or its get failed, the stored records otherwise
RefLoaded(key) ==
    IF key \in result.getFailed \/ ~result.pre[key].present THEN <<>>
    ELSE result.pre[key].val

\* the JSON of a list of records, in the order of the list
RefSerialized(records) ==
    [i \in 1..Len(records) |->
        [records[i] EXCEPT
           !.createdAt = IF @.k = "date" THEN Iso(@.t) ELSE JsonNull,
           !.updatedAt = IF @.k = "date" THEN Iso(@.t) ELSE JsonNull]]

\* C14: exportData returns the text of an object with the fields templates,
\* variables, version and exportedAt: version is '1.0.0', exportedAt an
\* instant, templates and variables the two collections as loaded at the
\* time of the export, in stored order
C14_ExportBundleShape ==
    result.op = "exportData"
        => /\ result.status = "ok"
           /\ result.value.text.parses
           /\ result.value.text.value.isObject
           /\ DOMAIN result.value.text.value
                = {"isObject", "templates", "variables", "version", "exportedAt"}
           /\ result.value.text.value.version = "1.0.0"
           /\ result.value.text.value.exportedAt.k = "iso"
           /\ result.value.text.value.exportedAt.t \in Instants
           /\ result.value.text.value.templates
                = ArrayOf(RefSerialized(RefLoaded(KeyT)))
           /\ result.value.text.value.variables
                = ArrayOf(RefSerialized(RefLoaded(KeyV)))

\* an export of two different stored templates and a stored variable
C14_Witness ==
    /\ result.op = "exportData"
    /\ result.getFailed = {}
    /\ Len(result.value.text.value.templates.items) = 2
    /\ result.value.text.value.templates.items[1]
         # result.value.text.value.templates.items[2]
    /\ result.value.text.value.variables.items # <<>>

(***************************************************************************)
(* C15                                                                     *)
(***************************************************************************)
\* C15: createTemplate and createVariable return a record with exactly the
\* given field values, the non-empty id generateId just returned, and one
\* and the same instant as createdAt and updatedAt
C15_CreatedRecord ==
    /\ made.fn = "createTemplate"
         => /\ DOMAIN made.value = {"id", "title", "content", "createdAt", "updatedAt"}
            /\ made.value.title = made.args.title
            /\ made.value.content = made.args.content
    /\ made.fn = "createVariable"
         => /\ DOMAIN made.value
                 = {"id", "name", "value", "description", "createdAt", "updatedAt"}
            /\ made.value.name = made.args.name
            /\ made.value.value = made.args.value
            /\ made.value.description = made.args.description
    /\ made.fn # "none"
         => /\ made.value.id # <<>>
            /\ made.value.id = made.id
            /\ made.value.createdAt.k = "date"
            /\ made.value.createdAt = made.value.updatedAt
            /\ made.value.createdAt.t = made.now

\* a template created while the clock moved on between the reading of
\* line 231 and the one inside generateId
C15_Witness ==
    /\ made.fn = "createTemplate"
    /\ made.value.title # <<>>
    /\ made.value.content # <<>>
    /\ made.now < clock
    /\ made.value.createdAt = made.value.updatedAt

(***************************************************************************)
(* C16  No two records of one collection, stored or in memory, have the   *)
(*      same id, whatever creations, saves, deletes and imports came      *)
(*      before.                                                            *)
(***************************************************************************)
RefUniqueIds(list) ==
    \A i, j \in 1..Len(list) : list[i].id = list[j].id => i = j

RefStored(key) == IF store[key].present THEN store[key].val ELSE <<>>

\* C16: the ids of each collection are pairwise different, in the store and
\* in the state of TemplateManager
C16_UniqueIds ==
    /\ RefUniqueIds(RefStored(KeyT))
    /\ RefUniqueIds(RefStored(KeyV))
    /\ RefUniqueIds(manager.templates)
    /\ RefUniqueIds(manager.variables)

(***************************************************************************)
(* C17  Every record of either collection was created no later than it    *)
(*      was last updated.                                                  *)
(***************************************************************************)
\* createdAt <= updatedAt as JavaScript compares two Dates: false when one
\* of them is an Invalid Date
RefOrdered(record) ==
    /\ record.createdAt.k = "date"
    /\ record.updatedAt.k = "date"
    /\ record.createdAt.t <= record.updatedAt.t

RefAllOrdered(list) == \A i \in 1..Len(list) : RefOrdered(list[i])

\* C17: createdAt <= updatedAt holds of every record, stored or in the
\* state of TemplateManager, after creations, edits, loads and imports
C17_CreatedBeforeUpdated ==
    /\ RefAllOrdered(RefStored(KeyT))
    /\ RefAllOrdered(RefStored(KeyV))
    /\ RefAllOrdered(manager.templates)
    /\ RefAllOrdered(manager.variables)

(***************************************************************************)
(* C18  The bundle of exportData is a snapshot: at one instant of the     *)
(*      export the store held the bundle's templates together with the    *)
(*      bundle's variables, also when other writes are interleaved.        *)
(***************************************************************************)
\* what a successful get of the key returns from the store contents s
RefHeld(s, key) == mapRehydrate(IF s[key].present THEN s[key].val ELSE <<>>)

\* C18: a bundle exported with both gets succeeding is what the store held,
\* under both keys at once, at some instant between the call of exportData
\* and its return
C18_PointInTimeSnapshot ==
    (result.op = "exportData" /\ result.status = "ok" /\ result.getFailed = {})
        => \E s \in seen :
              /\ RefHeld(s, KeyT) = result.value.templates
              /\ RefHeld(s, KeyV) = result.value.variables

(***************************************************************************)
(* C19  TemplateEditor passes no template to onTemplateSave while the     *)
(*      content has a validation error against the current variables, or  *)
(*      the trimmed title or the trimmed content is empty.                 *)
(***************************************************************************)
\* what must keep handleSave from saving the form
RefMustBlock(title, content, vs) ==
    \/ trim(title) = <<>>
    \/ trim(content) = <<>>
    \/ validateTemplate([NoTemplate EXCEPT !.title = title, !.content = content],
                        vs) # <<>>

\* C19: the handleSave that has just run called onTemplateSave only with a
\* form that has a title, a content and no validation error
C19_ErrorsBlockSave ==
    editor.saved.called
        => ~RefMustBlock(editor.saved.title, editor.saved.content,
                         editor.saved.variables)

(***************************************************************************)
(* C20  Once TemplateManager is mounted its loading flag becomes false    *)
(*      and the tabs are shown, whether the gets of the initial load      *)
(*      succeed or fail; a collection whose get failed is shown empty,    *)
(*      and both are empty when getAllData itself fails.                   *)
(***************************************************************************)
\* the load of the templates, resp. the variables, failed
RefLoadFailed(res, key) == res.status = "failed" \/ key \in res.getFailed

\* C20: a mounted TemplateManager eventually shows the tabs, and the step
\* that ends the loading leaves every collection whose load failed empty
C20_LoadingEnds ==
    /\ manager.mounted ~> Ready
    /\ [][(manager.loading /\ ~manager'.loading)
            => /\ RefLoadFailed(result, KeyT) => manager'.templates = <<>>
               /\ RefLoadFailed(result, KeyV) => manager'.variables = <<>>]_vars

\* both gets failed over a store that holds templates and variables: the
\* tabs are shown with both collections empty
C20_Witness ==
    /\ Ready
    /\ RefStored(KeyT) # <<>>
    /\ RefStored(KeyV) # <<>>
    /\ manager.templates = <<>>
    /\ manager.variables = <<>>

(***************************************************************************)
(* C21  When the Clipboard API is there and its writeText fails,          *)
(*      copyToClipboard goes on to the textarea and execCommand path: it  *)
(*      succeeds if that path succeeds and fails, with 'Failed to copy    *)
(*      to clipboard', only if that path fails too.                        *)
(***************************************************************************)
\* C21: after a call in which writeText was rejected, execCommand was
\* called, a successful execCommand made the call succeed, and a failed
\* call carries the error message
C21_FallbackAfterWriteTextFails ==
    clip.writeText = "failed"
        => /\ clip.execCommand # "none"
           /\ clip.execCommand = "true" => clip.status = "ok"
           /\ clip.status = "failed" => clip.error = CopyError

(***************************************************************************)
(* C22  handleTemplateSave and handleVariableSave are upserts by id on    *)
(*      the in-memory collection and the store; handleTemplateDelete and  *)
(*      handleVariableDelete remove exactly the records with the id.       *)
(***************************************************************************)
\* after is before with record put in place of the records of its id, or
\* added at the end when there is none
RefUpserted(before, record, after) ==
    IF \E i \in 1..Len(before) : before[i].id = record.id
    THEN /\ Len(after) = Len(before)
         /\ \A i \in 1..Len(before) :
              after[i] = IF before[i].id = record.id THEN record ELSE before[i]
    ELSE /\ Len(after) = Len(before) + 1
         /\ after[Len(after)] = record
         /\ \A i \in 1..Len(before) : after[i] = before[i]

RECURSIVE RefWithout(_, _)
RefWithout(list, id) ==
    IF list = <<>> THEN <<>>
    ELSE (IF Head(list).id = id THEN <<>> ELSE <<Head(list)>>)
            \o RefWithout(Tail(list), id)

\* the handler that ran last on the templates, resp. the variables, and did
\* not throw
RefDone(fn) == call.fn = fn /\ ~call.threw

C23_StateFollowsWrite ==
    call.fn # "none"
        => /\ call.threw <=> ~call.setOk
           /\ call.threw
                => /\ manager.templates = call.templates
                   /\ manager.variables = call.variables
                   /\ store = call.pre
           /\ manager.templates # call.templates
                => store[KeyT] = Present(manager.templates)
           /\ manager.variables # call.variables
                => store[KeyV] = Present(manager.variables)

\* the write of a template that is not yet in the list failed
C23_Witness ==
    /\ call.fn = "handleTemplateSave"
    /\ call.threw
    /\ \A i \in 1..Len(call.templates) : call.templates[i].id # call.arg.id
    /\ call.pre[KeyT].present

(***************************************************************************)
(* C24  Settings keeps the names of the variables different, letter case  *)
(*      aside: from a collection without two equal names, adds, edits     *)
(*      and deletes lead to no two equal names; a save under the name of  *)
(*      another variable, or with an empty trimmed name or value, does    *)
(*      not call onVariableSave.                                           *)
(***************************************************************************)
RefSameName(a, b) == toLowerCase(a) = toLowerCase(b)

RefUniqueNames(list) ==
    \A i, j \in 1..Len(list) : RefSameName(list[i].name, list[j].name) => i = j

\* the form must be refused: a trimmed field is empty, or another variable
\* of the list, i.e. one at another place than the edited one, has the name
RefMustRefuse(vs, form) ==
    \/ trim(form.name) = <<>>
    \/ trim(form.value) = <<>>
    \/ \E i \in 1..Len(vs) :
          /\ RefSameName(vs[i].name, trim(form.name))
          /\ (form.editing.isNull \/ vs[i].id # form.editing.value.id)

\* C24: no two variables, in memory or stored, have the same name, and the
\* handleSave that ran last did not call onVariableSave with a form that
\* had to be refused
C24_NamesStayUnique ==
    /\ RefUniqueNames(manager.variables)
    /\ RefUniqueNames(RefStored(KeyV))
    /\ call.fn = "Settings.handleSave" /\ RefMustRefuse(call.variables, call.arg)
         => ~call.called

(***************************************************************************)
(* C25                                                                     *)
(***************************************************************************)
\* the list stored under the templates key holds the record t
RefHolds(t) == \E i \in 1..Len(RefStored(KeyT)) : RefStored(KeyT)[i] = t

\* the list stored under the templates key holds a record with this id
RefHoldsId(id) == \E i \in 1..Len(RefStored(KeyT)) : RefStored(KeyT)[i].id = id

\* C25: when a handleTemplateSave of t and a handleTemplateDelete of u, u
\* different from t.id, overlap (the second starts before the write of the
\* first has settled) and both complete successfully, the stored templates
\* contain t and no record with the id u.
C25_NoLostUpdate ==
    \A i, j \in 1..Len(inflight) :
        ( /\ i # j
          /\ inflight[i].fn = "handleTemplateSave"
          /\ inflight[j].fn = "handleTemplateDelete"
          /\ inflight[i].state = "ok"
          /\ inflight[j].state = "ok"
          /\ inflight[j].arg.id # inflight[i].arg.id )
        => /\ RefHolds(inflight[i].arg)
           /\ ~RefHoldsId(inflight[j].arg.id)

(***************************************************************************)
(* C26                                                                     *)
(***************************************************************************)
\* every record that s held under key with an id other than id is held,
\* unchanged, by the store
RefOthersKept(s, key, id) ==
    \A i \in 1..Len(RefHeld(s, key)) :
        RefHeld(s, key)[i].id # id
        => \E j \in 1..Len(RefHeld(store, key)) :
               RefHeld(store, key)[j] = RefHeld(s, key)[i]

\* C26: after a successful handleTemplateSave or handleTemplateDelete every
\* template that was stored under another id is still stored, unchanged, and
\* the same holds of the variables after handleVariableSave and
\* handleVariableDelete, also when the load came to an empty collection.
C26_OtherRecordsKept ==
    (call.called /\ ~call.threw)
    => /\ call.fn \in {"handleTemplateSave", "handleTemplateDelete"}
          => RefOthersKept(call.pre, KeyT, call.arg.id)
       /\ call.fn \in {"handleVariableSave", "handleVariableDelete"}
          => RefOthersKept(call.pre, KeyV, call.arg.id)

(***************************************************************************)
(* C27                                                                     *)
(***************************************************************************)
\* C27: after template saves through the editor and variable saves and
\* deletes through Settings, every stored template validates without errors
\* against the stored variables.
C27_StoredTemplatesValidate ==
    \A i \in 1..Len(RefHeld(store, KeyT)) :
        validateTemplate(RefHeld(store, KeyT)[i], RefHeld(store, KeyV)) = <<>>

(***************************************************************************)
(* C28                                                                     *)
(***************************************************************************)
\* what stands for the marker m of s in the output: the value of the last
\* variable named as the marker when there is one and it is not empty, the
\* marker as written otherwise
RefOut(s, m, vs) ==
    LET n == RefTrim(RefInner(s, m))
    IN  IF HasVariable(vs, n) /\ LastValue(vs, n) # <<>>
        THEN LastValue(vs, n) ELSE RefText(s, m)

\* C28: the output of processTemplate is the original content with each of
\* its markers, found in one scan from left to right without overlap,
\* replaced by a value inserted as it is (placeholders in it stay) and the
\* text outside the markers copied; a content without markers is returned
\* as it is.
C28_SinglePass ==
    engineOut.fn = "processTemplate"
        => LET c == template.content
               ms == RefMarkers(c)
           IN  /\ engineOut.value
                    = RefRender(c, ms, [i \in 1..Len(ms) |-> RefOut(c, ms[i], variables)], 1)
               /\ ms = <<>> => engineOut.value = c

\* a marker was replaced by a value that holds the placeholder of a defined
\* variable with a value, and the output holds that placeholder, next to
\* text outside the markers
C28_Witness ==
    /\ engineOut.fn = "processTemplate"
    /\ Len(engineOut.calls) = 1
    /\ Len(template.content) > Len(engineOut.calls[1].text)
    /\ engineOut.calls[1].out # engineOut.calls[1].text
    /\ RefMarkers(engineOut.calls[1].out) # <<>>
    /\ LET inner == RefNames(engineOut.calls[1].out)[1]
       IN  HasVariable(variables, inner) /\ LastValue(variables, inner) = <<"Y", "Z">>
    /\ Contains(engineOut.value, engineOut.calls[1].out)

(***************************************************************************)
(* C29                                                                     *)
(***************************************************************************)
\* processTemplate ran on a template that validates without errors
RefValidated ==
    /\ engineOut.fn = "processTemplate"
    /\ validateTemplate(template, variables) = <<>>

\* C29 as stated: when validateTemplate returns no errors, processTemplate
\* replaces every matched placeholder by the value of a variable, none is
\* left in place
C29_AsStated ==
    RefValidated
        => \A i \in 1..Len(engineOut.calls) :
             /\ engineOut.calls[i].out # engineOut.calls[i].text
             /\ \E j \in 1..Len(variables) : variables[j].value = engineOut.calls[i].out

\* C29 (amended): when validateTemplate returns no errors, every placeholder
\* with a non-empty trimmed name names a variable, and it is replaced by the
\* value of the last variable of that name unless that value is empty, in
\* which case it is left in place; a whitespace-only placeholder is left in
\* place unless the last variable with the empty name has a non-empty value
C29_ValidatedResolves ==
    RefValidated
        => \A i \in 1..Len(engineOut.calls) :
             LET n == RefNames(template.content)[i]
                 call_i == engineOut.calls[i]
             IN  /\ n # <<>> => HasVariable(variables, n)
                 /\ (HasVariable(variables, n) /\ LastValue(variables, n) # <<>>)
                      => /\ call_i.out = LastValue(variables, n)
                         /\ call_i.out # call_i.text
                 /\ (~HasVariable(variables, n) \/ LastValue(variables, n) = <<>>)
                      => call_i.out = call_i.text

\* a validated template with three placeholders: one replaced, one left in
\* place because its variable has the empty value, one left in place
\* because its name is empty
C29_Witness ==
    /\ RefValidated
    /\ Len(engineOut.calls) = 3
    /\ \E i, j, k \in 1..3 :
         /\ engineOut.calls[i].out # engineOut.calls[i].text
         /\ engineOut.calls[j].name # <<>>
         /\ engineOut.calls[j].out = engineOut.calls[j].text
         /\ engineOut.calls[k].name = <<>>
         /\ engineOut.calls[k].out = engineOut.calls[k].text

(***************************************************************************)
(* C30                                                                     *)
(***************************************************************************)
\* C30: whenever importData has failed, for whatever cause, both keys of the
\* store hold what they held before the call.
C30_ImportAllOrNothing ==
    (result.op = "importData" /\ result.status = "failed")
        => /\ store[KeyT] = result.pre[KeyT]
           /\ store[KeyV] = result.pre[KeyV]

====
